---- MODULE Spec2Model ----
(***************************************************************************)
(* A model of the Descriptor class of src/src/index.ts (DescriptorsFactory) *)
(* and of the evaluate() helper it is built on.                             *)
(*                                                                          *)
(* Texts are sequences of one-character strings, so that the checksum, the  *)
(* wildcard substitution and the anchored grammar patterns are computed on  *)
(* characters.  32-bit quantities that do not fit the checker's integers    *)
(* (nSequence, nLockTime) are pairs <<hi, lo>> of 16-bit limbs.             *)
(***************************************************************************)
EXTENDS Integers, Sequences, FiniteSets, TLC

(***************************************************************************)
(* Text helpers                                                             *)
(***************************************************************************)

\* The value of an unset optional text / script / number field.
Undef == <<"undefined">>

NumUndef == <<-1, -1>>

U32(hi, lo) == <<hi, lo>>

GtU32(a, b) == a[1] > b[1] \/ (a[1] = b[1] /\ a[2] > b[2])

MaxU32(a, b) == IF GtU32(a, b) THEN a ELSE b

Range(s) == {s[i] : i \in DOMAIN s}

\* String.prototype.indexOf for one character, 1-based; 0 when absent.
IndexOf(ch, s) ==
    LET at == {i \in DOMAIN s : s[i] = ch} IN
    IF at = {} THEN 0 ELSE CHOOSE i \in at : \A j \in at : i <= j

StartsWith(s, p) == Len(s) >= Len(p) /\ SubSeq(s, 1, Len(p)) = p

EndsWith(s, p) == Len(s) >= Len(p) /\ SubSeq(s, Len(s) - Len(p) + 1, Len(s)) = p

DigitChars == <<"0", "1", "2", "3", "4", "5", "6", "7", "8", "9">>

RECURSIVE ToDecimal(_)
\* Number.prototype.toString() of a non-negative integer.
ToDecimal(n) ==
    IF n < 10 THEN <<DigitChars[n + 1]>>
    ELSE ToDecimal(n \div 10) \o <<DigitChars[(n % 10) + 1]>>

ReplaceAllFirstOnly(s, ch, by) ==
    LET At(i) == IF i = 0 THEN s ELSE SubSeq(s, 1, i - 1) \o by \o SubSeq(s, i + 1, Len(s))
    IN  At(IndexOf(ch, s))

RECURSIVE ReplaceAll(_, _, _)
\* String.prototype.replaceAll(ch, by) for a one-character pattern; the text
\* is split in halves so that the evaluation stays shallow.
ReplaceAll(s, ch, by) ==
    IF Len(s) = 0 THEN <<>>
    ELSE IF Len(s) = 1 THEN (IF s[1] = ch THEN by ELSE s)
    ELSE LET mid == Len(s) \div 2 IN
         ReplaceAll(SubSeq(s, 1, mid), ch, by) \o ReplaceAll(SubSeq(s, mid + 1, Len(s)), ch, by)

(***************************************************************************)
(* Checksum engine (./checksum, DescriptorChecksum): the reference          *)
(* descriptor checksum.  The 40-bit accumulator is kept as eight 5-bit      *)
(* symbols, most significant first.  The backtick, the double quote and the     *)
(* backslash of the input alphabet are written out as words.               *)
(***************************************************************************)

INPUT_CHARSET ==
    << "0", "1", "2", "3", "4", "5", "6", "7", "8", "9", "(", ")", "[", "]", ",", "'",
       "/", "*", "a", "b", "c", "d", "e", "f", "g", "h", "@", ":", "$", "%", "{", "}",
       "I", "J", "K", "L", "M", "N", "O", "P", "Q", "R", "S", "T", "U", "V", "W", "X",
       "Y", "Z", "&", "+", "-", ".", ";", "<", "=", ">", "?", "!", "^", "_", "|", "~",
       "i", "j", "k", "l", "m", "n", "o", "p", "q", "r", "s", "t", "u", "v", "w", "x",
       "y", "z", "A", "B", "C", "D", "E", "F", "G", "H", "backtick", "#", "dquote", "backslash", " " >>

CHECKSUM_CHARSET ==
    << "q", "p", "z", "r", "y", "9", "x", "8", "g", "f", "2", "t", "v", "d", "w", "0",
       "s", "3", "j", "n", "5", "4", "k", "h", "c", "e", "6", "m", "u", "a", "7", "l" >>

\* 0xf5dee51989, 0xa9fdca3312, 0x1bab10e32d, 0x3706b1677a, 0x644d626ffd
GENERATOR ==
    << <<30, 23, 15, 14, 10, 6, 12, 9>>,
       <<21, 7, 30, 28, 20, 12, 24, 18>>,
       <<3, 14, 21, 17, 1, 24, 25, 13>>,
       <<6, 28, 3, 11, 2, 25, 27, 26>>,
       <<12, 17, 6, 22, 4, 27, 31, 29>> >>

RECURSIVE BitXor(_, _)
BitXor(a, b) ==
    IF a = 0 THEN b
    ELSE IF b = 0 THEN a
    ELSE ((a + b) % 2) + 2 * BitXor(a \div 2, b \div 2)

XorSymbols(c, g) == [i \in 1..8 |-> BitXor(c[i], g[i])]

RECURSIVE XorGenerators(_, _, _)
\* for i in 0..4: if ((top >> i) & 1) c ^= GENERATOR[i]
XorGenerators(c, top, i) ==
    IF i > 5 THEN c
    ELSE XorGenerators(IF top % 2 = 1 THEN XorSymbols(c, GENERATOR[i]) ELSE c,
                       top \div 2, i + 1)

\* c = ((c & 0x7ffffffff) << 5) ^ val, then the generators selected by c >> 35.
PolyMod(c, val) ==
    XorGenerators([i \in 1..8 |-> IF i < 8 THEN c[i + 1] ELSE val], c[1], 1)

\* Holds of every value; evaluating it computes v before the scan goes on,
\* which keeps the evaluation of a long scan shallow.
Evaluated(v) == v = v

RECURSIVE PolyModZeros(_, _)
PolyModZeros(c, n) ==
    IF Evaluated(c) /\ n = 0 THEN c ELSE PolyModZeros(PolyMod(c, 0), n - 1)

\* One iteration of the scan over the characters of span, on the state
\* st = [valid, c, cls, clscount]; an unknown character ends it as invalid.
ChecksumStep(st, ch) ==
    LET Next3(c1, cls1) ==
            IF st.clscount + 1 = 3
            THEN [valid |-> TRUE, c |-> PolyMod(c1, cls1), cls |-> 0, clscount |-> 0]
            ELSE [valid |-> TRUE, c |-> c1, cls |-> cls1, clscount |-> st.clscount + 1]
        At(pos) ==
            IF ~st.valid \/ pos = -1 THEN [st EXCEPT !.valid = FALSE]
            ELSE Next3(PolyMod(st.c, pos % 32), st.cls * 3 + (pos \div 32))
    IN  At(IndexOf(ch, INPUT_CHARSET) - 1)

RECURSIVE ChecksumScan(_, _, _, _)
\* The iterations for span[lo..hi] in order, split in halves so that long
\* spans evaluate in logarithmic depth.
ChecksumScan(span, lo, hi, st) ==
    IF Evaluated(st) /\ lo > hi THEN st
    ELSE IF lo = hi THEN ChecksumStep(st, span[lo])
    ELSE LET mid == (lo + hi) \div 2 IN
         ChecksumScan(span, mid + 1, hi, ChecksumScan(span, lo, mid, st))

DescriptorChecksum(span) ==
    LET Symbols(z) ==
            [j \in 1..8 |-> CHECKSUM_CHARSET[(IF j = 8 THEN BitXor(z[j], 1) ELSE z[j]) + 1]]
        Finish(scan) ==
            IF ~scan.valid THEN <<>>
            ELSE Symbols(PolyModZeros(IF scan.clscount > 0 THEN PolyMod(scan.c, scan.cls)
                                      ELSE scan.c, 8))
    IN  Finish(ChecksumScan(span, 1, Len(span),
                   [valid |-> TRUE, c |-> <<0, 0, 0, 0, 0, 0, 0, 1>>,
                    cls |-> 0, clscount |-> 0]))

\* [a-z0-9], the character class of the checksum pattern.
LowerAlnum ==
    {"a", "b", "c", "d", "e", "f", "g", "h", "i", "j", "k", "l", "m", "n", "o",
     "p", "q", "r", "s", "t", "u", "v", "w", "x", "y", "z"} \cup Range(DigitChars)

\* expression.match(reChecksum anchored at the end): the matched suffix,
\* or Undef for a null match.
MatchChecksum(expression) ==
    LET n == Len(expression) IN
    IF n >= 9 /\ expression[n - 8] = "#"
         /\ \A i \in (n - 7)..n : expression[i] \in LowerAlnum
    THEN SubSeq(expression, n - 8, n)
    ELSE Undef

(***************************************************************************)
(* evaluate (src/src/index.ts 66-108)                                       *)
(***************************************************************************)

\* The optional index argument: undefined, an integer, or a non-integer
\* number val + 1/2.
NoIndex == [def |-> FALSE, isInt |-> FALSE, val |-> 0]

Idx(n) == [def |-> TRUE, isInt |-> TRUE, val |-> n]

Half(n) == [def |-> TRUE, isInt |-> FALSE, val |-> n]

\* The template literal ${index}.
IndexText(index) ==
    (IF index.val < 0 THEN <<"-">> ELSE <<>>)
        \o (IF index.isInt THEN ToDecimal(IF index.val < 0 THEN -index.val ELSE index.val)
            ELSE IF index.val < 0 THEN ToDecimal(-index.val - 1) \o <<".", "5">>
            ELSE ToDecimal(index.val) \o <<".", "5">>)

\* An Error: kind names the throw site, what/text the value interpolated
\* into its message (what = "none" for a message without interpolation).
NoErr == [kind |-> "none", what |-> "none", text |-> <<>>]

Err(kind, what, text) == [kind |-> kind, what |-> what, text |-> text]

Throw(e) == [ok |-> FALSE, value |-> Undef, err |-> e]

Return(v) == [ok |-> TRUE, value |-> v, err |-> NoErr]

\* The bare body: the expression with a matched checksum suffix removed.
StripChecksum(expression) ==
    IF MatchChecksum(expression) # Undef
    THEN SubSeq(expression, 1, Len(expression) - 9)
    ELSE expression

\* A comparison that accepts whatever suffix was matched.
ChecksumMatches_Always(mChecksum, bare) == TRUE

\* Whether the checksum suffix matched is the checksum of the bare body.
ChecksumMatches(mChecksum, bare) == Tail(mChecksum) = DescriptorChecksum(bare)

\* The wildcard substitution of evaluate (src/src/index.ts 91-106) with a
\* replacement of the leftmost wildcard only.
Substitute_First(bare, index) ==
    IF "*" \in Range(bare)
    THEN IF ~index.def
         THEN Throw(Err("index_not_provided", "none", <<>>))
         ELSE IF ~index.isInt \/ index.val < 0
         THEN Throw(Err("invalid_index", "index", IndexText(index)))
         ELSE Return(ReplaceAllFirstOnly(bare, "*", ToDecimal(index.val)))
    ELSE Return(bare)

\* The wildcard substitution of evaluate, src/src/index.ts 91-106.
Substitute(bare, index) ==
    IF "*" \in Range(bare)
    THEN IF ~index.def
         THEN Throw(Err("index_not_provided", "none", <<>>))
         ELSE IF ~index.isInt \/ index.val < 0
         THEN Throw(Err("invalid_index", "index", IndexText(index)))
         ELSE Return(ReplaceAll(bare, "*", ToDecimal(index.val)))
    ELSE Return(bare)

\* evaluate({expression, checksumRequired, index}), src/src/index.ts 66-108.
evaluate(expression, checksumRequired, index) ==
    LET Checked(mChecksum, bare) ==
            IF mChecksum = Undef /\ checksumRequired
            THEN Throw(Err("no_checksum", "expression", expression))
            ELSE IF mChecksum # Undef /\ ~ChecksumMatches(mChecksum, bare)
            THEN Throw(Err("invalid_checksum", "expression", expression))
            ELSE Substitute(bare, index)
    IN  Checked(MatchChecksum(expression), StripChecksum(expression))

(***************************************************************************)
(* Key expressions (./keyExpressions, ./re reKeyExp).  A key token is one   *)
(* capital letter standing for the key material, optionally followed by one *)
(* derivation step: A..P are compressed public keys, U an uncompressed      *)
(* public key, X and Y extended public keys with origin information.        *)
(***************************************************************************)

PlainKeys == {"A", "B", "C", "D", "E", "F", "G", "H", "I", "J", "K", "L", "M", "N", "O", "P"}

ExtendedKeys == {"X", "Y"}

KeyNames == PlainKeys \cup {"U"} \cup ExtendedKeys

RECURSIVE DigitRun(_, _)
\* The number of characters of the longest run of digits of s from i on.
DigitRun(s, i) ==
    IF i <= Len(s) /\ s[i] \in Range(DigitChars) THEN 1 + DigitRun(s, i + 1) ELSE 0

\* The length of the key expression that starts at position i of s.
KeyExpLen(s, i) ==
    LET d == IF i + 1 <= Len(s) /\ s[i + 1] = "/" THEN DigitRun(s, i + 2) ELSE 0 IN
    IF d = 0 THEN 1
    ELSE IF i + 2 + d <= Len(s) /\ s[i + 2 + d] = "'" THEN 3 + d
    ELSE 2 + d

\* The key expression at the leftmost key name of s from position i on.
FirstKeyFrom(s, i) ==
    LET at == {j \in i..Len(s) : s[j] \in KeyNames}
        From(j) == SubSeq(s, j, j + KeyExpLen(s, j) - 1)
    IN  IF at = {} THEN Undef ELSE From(CHOOSE j \in at : \A k \in at : j <= k)

\* text.match(RE.reKeyExp)?.[0]: the leftmost key expression of the text.
MatchKeyExp(s) == FirstKeyFrom(s, 1)

\* The whole of s is one key expression.
IsKeyExp(s) == s # <<>> /\ s[1] \in KeyNames /\ KeyExpLen(s, 1) = Len(s)

\* parseKeyExpression: the key record (pubkey, and whether it carries a
\* master fingerprint and a path), or an error.  An uncompressed key is
\* rejected under segwit, a derivation step needs an extended key, and a
\* hardened step cannot be derived from a public extended key.
parseKeyExpression(keyExpression, isSegwit) ==
    IF ~IsKeyExp(keyExpression)
    THEN [ok |-> FALSE, pubkey |-> Undef, bip32 |-> FALSE,
          err |-> Err("invalid_key_expression", "keyExpression", keyExpression)]
    ELSE IF keyExpression[1] = "U" /\ isSegwit
    THEN [ok |-> FALSE, pubkey |-> Undef, bip32 |-> FALSE,
          err |-> Err("uncompressed_key_in_segwit", "keyExpression", keyExpression)]
    ELSE IF keyExpression[1] \notin ExtendedKeys /\ Len(keyExpression) > 1
    THEN [ok |-> FALSE, pubkey |-> Undef, bip32 |-> FALSE,
          err |-> Err("invalid_key_expression", "keyExpression", keyExpression)]
    ELSE IF keyExpression[Len(keyExpression)] = "'"
    THEN [ok |-> FALSE, pubkey |-> Undef, bip32 |-> FALSE,
          err |-> Err("key_derivation", "keyExpression", keyExpression)]
    ELSE [ok |-> TRUE, pubkey |-> keyExpression, bip32 |-> keyExpression[1] \in ExtendedKeys,
          err |-> NoErr]

(***************************************************************************)
(* Miniscript (./miniscript): fragments as trees, their text, the expander, *)
(* the compiler and the satisfier.                                          *)
(***************************************************************************)

\* A number argument: its decimal text and its 32-bit value.
Num(n) == [txt |-> ToDecimal(n), val |-> U32(0, n)]

\* 4294967295
NumMaxU32 == [txt |-> <<"4", "2", "9", "4", "9", "6", "7", "2", "9", "5">>,
              val |-> U32(65535, 65535)]

Pk(k) == [f |-> "pk", key |-> k]

Older(n) == [f |-> "older", num |-> n]

After(n) == [f |-> "after", num |-> n]

Sha256(h) == [f |-> "sha256", digest |-> h]

AndV(x, y) == [f |-> "and_v", x |-> x, y |-> y]

OrI(x, y) == [f |-> "or_i", x |-> x, y |-> y]

Multi(k, keys) == [f |-> "multi", k |-> k, keys |-> keys]

\* and_v(v:x,and_v(v:x,...and_v(v:x,y))) with n copies of x; its text is
\* abbreviated and_v^n(v:x,y).
AndVChain(n, x, y) == [f |-> "and_v_chain", n |-> n, x |-> x, y |-> y]

\* The literal texts of the grammar.
TXT_pk == <<"p", "k", "(">>

TXT_older == <<"o", "l", "d", "e", "r", "(">>

TXT_after == <<"a", "f", "t", "e", "r", "(">>

TXT_sha256 == <<"s", "h", "a", "2", "5", "6", "(">>

TXT_and_v == <<"a", "n", "d", "_", "v">>

TXT_or_i == <<"o", "r", "_", "i", "(">>

TXT_multi == <<"m", "u", "l", "t", "i", "(">>

TXT_addr == <<"a", "d", "d", "r", "(">>

TXT_pkh == <<"p", "k", "h", "(">>

TXT_wpkh == <<"w", "p", "k", "h", "(">>

TXT_sh == <<"s", "h", "(">>

TXT_wsh == <<"w", "s", "h", "(">>

TXT_sh_wpkh == <<"s", "h", "(", "w", "p", "k", "h", "(">>

TXT_sh_wsh == <<"s", "h", "(", "w", "s", "h", "(">>

RECURSIVE JoinKeys(_)
JoinKeys(keys) ==
    IF keys = <<>> THEN <<>>
    ELSE IF Len(keys) = 1 THEN <<",">> \o keys[1]
    ELSE LET mid == Len(keys) \div 2 IN
         JoinKeys(SubSeq(keys, 1, mid)) \o JoinKeys(SubSeq(keys, mid + 1, Len(keys)))

RECURSIVE MiniscriptText(_)
MiniscriptText(a) ==
    CASE a.f = "pk"     -> TXT_pk \o a.key \o <<")">>
      [] a.f = "older"  -> TXT_older \o a.num.txt \o <<")">>
      [] a.f = "after"  -> TXT_after \o a.num.txt \o <<")">>
      [] a.f = "sha256" -> TXT_sha256 \o a.digest \o <<")">>
      [] a.f = "and_v"  -> TXT_and_v \o <<"(", "v", ":">> \o MiniscriptText(a.x)
                               \o <<",">> \o MiniscriptText(a.y) \o <<")">>
      [] a.f = "or_i"   -> TXT_or_i \o MiniscriptText(a.x)
                               \o <<",">> \o MiniscriptText(a.y) \o <<")">>
      [] a.f = "multi"  -> TXT_multi \o ToDecimal(a.k) \o JoinKeys(a.keys) \o <<")">>
      [] a.f = "and_v_chain" ->
             TXT_and_v \o <<"^">> \o ToDecimal(a.n) \o <<"(", "v", ":">>
                 \o MiniscriptText(a.x) \o <<",">> \o MiniscriptText(a.y) \o <<")">>

RECURSIVE KeysOf(_)
\* The key tokens of a fragment, left to right, repetitions included.
KeysOf(a) ==
    CASE a.f = "pk"    -> <<a.key>>
      [] a.f = "multi" -> a.keys
      [] a.f \in {"and_v", "or_i", "and_v_chain"} -> KeysOf(a.x) \o KeysOf(a.y)
      [] OTHER -> <<>>

RECURSIVE MapKeys(_, _)
\* The fragment with every key token k replaced by m[k].
MapKeys(a, m) ==
    CASE a.f = "pk"    -> Pk(m[a.key])
      [] a.f = "multi" -> Multi(a.k, [i \in DOMAIN a.keys |-> m[a.keys[i]]])
      [] a.f \in {"and_v", "or_i"} ->
             [a EXCEPT !.x = MapKeys(a.x, m), !.y = MapKeys(a.y, m)]
      [] a.f = "and_v_chain" ->
             [a EXCEPT !.x = MapKeys(a.x, m), !.y = MapKeys(a.y, m)]
      [] OTHER -> a

(***************************************************************************)
(* The fragments the model knows.  A text is a miniscript when it is the    *)
(* text of one of them, with any wildcard already replaced by an index.     *)
(***************************************************************************)

\* The largest index a ranged descriptor is evaluated at.
MaxIndex == 11

KeyA == <<"A">>

KeyB == <<"B">>

KeyC == <<"C">>

KeyU == <<"U">>

KeyXWild == <<"X", "/", "*">>

KeyXAt(i) == <<"X", "/">> \o ToDecimal(i)

KeyYWild == <<"Y", "/", "*">>

KeyYAt(i) == <<"Y", "/">> \o ToDecimal(i)

DigestE == <<"e">>

SixteenKeys ==
    << <<"A">>, <<"B">>, <<"C">>, <<"D">>, <<"E">>, <<"F">>, <<"G">>, <<"H">>,
       <<"I">>, <<"J">>, <<"K">>, <<"L">>, <<"M">>, <<"N">>, <<"O">>, <<"P">> >>

FragPkA == Pk(KeyA)

FragPkX == Pk(KeyXWild)

FragPkU == Pk(KeyU)

FragOlder == AndV(Pk(KeyA), Older(Num(10)))

FragAfter == AndV(Pk(KeyA), After(Num(500)))

FragOrOlder == OrI(Pk(KeyA), AndV(Pk(KeyB), Older(Num(10))))

FragHashOrAfter ==
    OrI(AndV(Sha256(DigestE), Older(Num(5))), AndV(Pk(KeyA), After(Num(100))))

FragAfterOlder == AndV(Pk(KeyA), AndV(After(Num(100)), Older(Num(10))))

FragAfterFinal == AndV(Pk(KeyA), AndV(After(Num(100)), Older(NumMaxU32)))

FragMulti == Multi(2, <<KeyA, KeyB, KeyC>>)

FragMultiRanged == Multi(1, <<KeyXWild, KeyYWild>>)

FragMulti16 == Multi(1, SixteenKeys)

\* Fragments whose scripts sit on the limits: 3600 and 3601 bytes, 520 and
\* 521 bytes, 201 and 202 non-push opcodes.
FragLen3600 == AndVChain(10, Older(Num(1)), AndVChain(101, Pk(KeyA), Pk(KeyA)))

FragLen3601 == AndVChain(22, Older(Num(1)), AndVChain(100, Pk(KeyA), Pk(KeyA)))

FragLen520 == AndVChain(10, Older(Num(1)), AndVChain(13, Pk(KeyA), Pk(KeyA)))

FragLen521 == AndVChain(22, Older(Num(1)), AndVChain(12, Pk(KeyA), Pk(KeyA)))

FragOps201 == AndVChain(100, Older(Num(1)), Pk(KeyA))

FragOps202 == AndVChain(100, Older(Num(1)), AndVChain(1, Pk(KeyA), Pk(KeyA)))

BaseFragments ==
    {FragPkA, FragPkX, FragPkU, FragOlder, FragAfter, FragOrOlder, FragHashOrAfter,
     FragAfterOlder, FragAfterFinal, FragMulti, FragMultiRanged, FragMulti16, FragLen3600,
     FragLen3601, FragLen520, FragLen521, FragOps201, FragOps202}

\* The fragment with its wildcard key evaluated at index i.
AtIndex(a, i) ==
    MapKeys(a, [k \in Range(KeysOf(a)) |->
                   IF k = KeyXWild THEN KeyXAt(i) ELSE IF k = KeyYWild THEN KeyYAt(i) ELSE k])

Placeholder(i) == <<"@">> \o ToDecimal(i)

\* The elements of s not in seen, in first-occurrence order.
Distinct(s, seen) ==
    LET firsts == {i \in DOMAIN s : s[i] \notin seen /\ \A j \in 1..(i - 1) : s[j] # s[i]}
        Nth(k) == CHOOSE i \in firsts : Cardinality({j \in firsts : j < i}) = k - 1
    IN  [k \in 1..Cardinality(firsts) |-> s[Nth(k)]]

\* The fragment with each distinct key token replaced by @0, @1, ... in
\* first-occurrence order.
Expanded(a) ==
    LET To(ks) == MapKeys(a, [k \in Range(ks) |-> Placeholder(IndexOf(k, ks) - 1)])
    IN  To(Distinct(KeysOf(a), {}))

\* The fragments a text can be after evaluate: those without a wildcard,
\* and those with one at each index.
EvaluatedFragments ==
    UNION {IF Range(KeysOf(a)) \cap {KeyXWild, KeyYWild} = {} THEN {a}
           ELSE {AtIndex(a, i) : i \in 0..MaxIndex} : a \in BaseFragments}

KnownFragments == UNION {{a, Expanded(a)} : a \in EvaluatedFragments}

\* Every known fragment beside its text.
TextTable == {<<MiniscriptText(a), a>> : a \in KnownFragments}

\* The trees a text is the text of.
TreesOf(text) == {p[2] : p \in {q \in TextTable : q[1] = text}}

(***************************************************************************)
(* expandMiniscript                                                         *)
(***************************************************************************)

\* expandMiniscript({miniscript, isSegwit, network}): the expanded text and
\* the expansion map, a sequence whose i-th entry is the key record of
\* placeholder @(i-1); the first key that fails to parse fails the call.
expandMiniscript(miniscript, isSegwit) ==
    LET Failed(e) ==
            [ok |-> FALSE, expandedMiniscript |-> Undef, expansionMap |-> <<>>, err |-> e]
        Parsed(a, ks, parsed, bad) ==
            IF bad # {}
            THEN Failed(parsed[CHOOSE i \in bad : \A j \in bad : i <= j].err)
            ELSE [ok |-> TRUE,
                  expandedMiniscript |-> MiniscriptText(Expanded(a)),
                  expansionMap |->
                      [i \in DOMAIN ks |->
                          [keyExpression |-> ks[i], pubkey |-> parsed[i].pubkey,
                           bip32 |-> parsed[i].bip32]],
                  err |-> NoErr]
        WithKeys(a, ks, parsed) == Parsed(a, ks, parsed, {i \in DOMAIN ks : ~parsed[i].ok})
        WithTree(a, ks) ==
            WithKeys(a, ks, [i \in DOMAIN ks |-> parseKeyExpression(ks[i], isSegwit)])
        WithTrees(trees) ==
            IF trees = {} THEN Failed(Err("invalid_miniscript", "miniscript", miniscript))
            ELSE \* the one tree of the text
                 CHOOSE r \in {WithTree(a, Distinct(KeysOf(a), {})) : a \in trees} : TRUE
    IN  WithTrees(TreesOf(miniscript))

\* The expanded fragment with each placeholder replaced by its public key.
Resolve(expandedMiniscript, expansionMap) ==
    CHOOSE r \in {MapKeys(a, [k \in Range(KeysOf(a)) |->
                                 expansionMap[CHOOSE i \in DOMAIN expansionMap :
                                                  Placeholder(i - 1) = k].pubkey])
                  : a \in TreesOf(expandedMiniscript)} : TRUE

(***************************************************************************)
(* miniscript2Script.  A script is the sequence of its decompiled chunks,   *)
(* run-length encoded: op is the opcode of the chunk (-1 for a data push,   *)
(* which decompiles to a buffer), bytes its serialized size, n the number   *)
(* of consecutive copies.                                                   *)
(***************************************************************************)

OPS == [OP_0 |-> 0, OP_1 |-> 81, OP_16 |-> 96, OP_IF |-> 99, OP_ELSE |-> 103,
        OP_ENDIF |-> 104, OP_VERIFY |-> 105, OP_DUP |-> 118, OP_SIZE |-> 130,
        OP_EQUAL |-> 135, OP_EQUALVERIFY |-> 136, OP_SHA256 |-> 168,
        OP_HASH160 |-> 169, OP_CHECKSIG |-> 172,
        OP_CHECKSIGVERIFY |-> 173, OP_CHECKMULTISIG |-> 174,
        OP_CHECKMULTISIGVERIFY |-> 175, OP_CHECKLOCKTIMEVERIFY |-> 177,
        OP_CHECKSEQUENCEVERIFY |-> 178]

Chunk(op, bytes) == [op |-> op, bytes |-> bytes, n |-> 1, data |-> <<>>]

\* The push of len bytes of data.
DataPushOf(len, data) == [op |-> -1, bytes |-> 1 + len, n |-> 1, data |-> data]

DataPush(len) == DataPushOf(len, <<>>)

\* The push of a script number: OP_1..OP_16 for 1..16, else the minimal
\* little-endian encoding with a sign bit.
NumberPush(val) ==
    IF val[1] = 0 /\ val[2] = 0 THEN Chunk(OPS.OP_0, 1)
    ELSE IF val[1] = 0 /\ val[2] <= 16 THEN Chunk(OPS.OP_1 + val[2] - 1, 1)
    ELSE IF val[1] = 0 /\ val[2] < 128 THEN DataPush(1)
    ELSE IF val[1] = 0 /\ val[2] < 32768 THEN DataPush(2)
    ELSE IF val[1] < 128 THEN DataPush(3)
    ELSE IF val[1] < 32768 THEN DataPush(4)
    ELSE DataPush(5)

KeyPush(pubkey) == DataPushOf(IF pubkey[1] = "U" THEN 65 ELSE 33, pubkey)

Times(script, k) == [i \in DOMAIN script |-> [script[i] EXCEPT !.n = @ * k]]

RECURSIVE CompileFragment(_, _)
\* The script of a fragment; verify selects the v: form (the last opcode in
\* its VERIFY variant, or a trailing OP_VERIFY).
CompileFragment(a, verify) ==
    CASE a.f = "pk" ->
             <<KeyPush(a.key),
               Chunk(IF verify THEN OPS.OP_CHECKSIGVERIFY ELSE OPS.OP_CHECKSIG, 1)>>
      [] a.f = "older" ->
             <<NumberPush(a.num.val), Chunk(OPS.OP_CHECKSEQUENCEVERIFY, 1)>>
                 \o (IF verify THEN <<Chunk(OPS.OP_VERIFY, 1)>> ELSE <<>>)
      [] a.f = "after" ->
             <<NumberPush(a.num.val), Chunk(OPS.OP_CHECKLOCKTIMEVERIFY, 1)>>
                 \o (IF verify THEN <<Chunk(OPS.OP_VERIFY, 1)>> ELSE <<>>)
      [] a.f = "sha256" ->
             <<Chunk(OPS.OP_SIZE, 1), DataPush(1), Chunk(OPS.OP_EQUALVERIFY, 1),
               Chunk(OPS.OP_SHA256, 1), DataPushOf(32, a.digest),
               Chunk(IF verify THEN OPS.OP_EQUALVERIFY ELSE OPS.OP_EQUAL, 1)>>
      [] a.f = "and_v" -> CompileFragment(a.x, TRUE) \o CompileFragment(a.y, verify)
      [] a.f = "or_i" ->
             <<Chunk(OPS.OP_IF, 1)>> \o CompileFragment(a.x, FALSE)
                 \o <<Chunk(OPS.OP_ELSE, 1)>> \o CompileFragment(a.y, FALSE)
                 \o <<Chunk(OPS.OP_ENDIF, 1)>>
                 \o (IF verify THEN <<Chunk(OPS.OP_VERIFY, 1)>> ELSE <<>>)
      [] a.f = "multi" ->
             <<NumberPush(U32(0, a.k))>> \o [i \in DOMAIN a.keys |-> KeyPush(a.keys[i])]
                 \o <<NumberPush(U32(0, Len(a.keys))),
                      Chunk(IF verify THEN OPS.OP_CHECKMULTISIGVERIFY
                            ELSE OPS.OP_CHECKMULTISIG, 1)>>
      [] a.f = "and_v_chain" ->
             Times(CompileFragment(a.x, TRUE), a.n) \o CompileFragment(a.y, verify)

\* miniscript2Script({expandedMiniscript, expansionMap}).
miniscript2Script(expandedMiniscript, expansionMap) ==
    CompileFragment(Resolve(expandedMiniscript, expansionMap), FALSE)

RECURSIVE ByteLengthFrom(_, _)
\* The bytes of the chunks from i on, summed by halves.
ByteLengthFrom(script, i) ==
    IF i > Len(script) THEN 0
    ELSE IF i = Len(script) THEN script[i].bytes * script[i].n
    ELSE LET mid == (i + Len(script)) \div 2 IN
         ByteLengthFrom(SubSeq(script, 1, mid), i) + ByteLengthFrom(script, mid + 1)

\* script.byteLength
byteLength(script) == ByteLengthFrom(script, 1)

RECURSIVE CountOpsFrom(_, _, _)
\* The number of chunks from i on that are opcodes of at least lowest.
CountOpsFrom(script, i, lowest) ==
    IF i > Len(script) THEN 0
    ELSE IF i = Len(script) THEN (IF script[i].op >= lowest THEN script[i].n ELSE 0)
    ELSE LET mid == (i + Len(script)) \div 2 IN
         CountOpsFrom(SubSeq(script, 1, mid), i, lowest) + CountOpsFrom(script, mid + 1, lowest)

\* countNonPushOnlyOPs (src/src/index.ts 56-60): the decompiled chunks that
\* are opcodes above OP_16.
countNonPushOnlyOPs(script) == CountOpsFrom(script, 1, OPS.OP_16 + 1)

(***************************************************************************)
(* satisfyMiniscript.  Signatures are records [pubkey, signature]; a        *)
(* preimage is named by the digest it opens.  A witness is the sequence of  *)
(* its stack items.                                                         *)
(***************************************************************************)

\* Buffer.alloc(64, 0), the placeholder signature of a constraints-only run.
ZeroSignature == "zero64"

RealSignature == "der"

SigItem(sig) == [t |-> "sig", of |-> sig.pubkey, val |-> sig.signature]

PreimageItem(digest) == [t |-> "preimage", of |-> digest, val |-> "preimage"]

FlagItem(b) == [t |-> "flag", of |-> <<>>, val |-> b]

\* The serialized size of a witness item.
ItemWeight(item) ==
    CASE item.t = "sig"      -> IF item.val = ZeroSignature THEN 65 ELSE 73
      [] item.t = "preimage" -> 33
      [] item.t = "flag"     -> IF item.val = "1" THEN 2 ELSE 1

RECURSIVE WitnessWeight(_)
WitnessWeight(w) ==
    IF w = <<>> THEN 0
    ELSE IF Len(w) = 1 THEN ItemWeight(w[1])
    ELSE LET mid == Len(w) \div 2 IN
         WitnessWeight(SubSeq(w, 1, mid)) + WitnessWeight(SubSeq(w, mid + 1, Len(w)))

MaxTime(a, b) == IF a = NumUndef THEN b ELSE IF b = NumUndef THEN a ELSE MaxU32(a, b)

Sat(w, lock, seq) == [witness |-> w, nLockTime |-> lock, nSequence |-> seq]

\* Both satisfactions hold together: the witness of y is pushed first.
Both(sx, sy) ==
    Sat(sy.witness \o sx.witness, MaxTime(sx.nLockTime, sy.nLockTime),
        MaxTime(sx.nSequence, sy.nSequence))

\* w, n times over.
Repeated(w, n) == [i \in 1..(n * Len(w)) |-> w[((i - 1) % Len(w)) + 1]]

RECURSIVE Satisfactions(_, _, _)
\* Every satisfaction of the fragment from the signing material supplied.
Satisfactions(a, sigs, preimages) ==
    CASE a.f = "pk" ->
             {Sat(<<SigItem(s)>>, NumUndef, NumUndef) : s \in {g \in sigs : g.pubkey = a.key}}
      [] a.f = "older" -> {Sat(<<>>, NumUndef, a.num.val)}
      [] a.f = "after" -> {Sat(<<>>, a.num.val, NumUndef)}
      [] a.f = "sha256" ->
             IF a.digest \in Range(preimages)
             THEN {Sat(<<PreimageItem(a.digest)>>, NumUndef, NumUndef)}
             ELSE {}
      [] a.f = "and_v" ->
             {Both(sx, sy) : sx \in Satisfactions(a.x, sigs, preimages),
                             sy \in Satisfactions(a.y, sigs, preimages)}
      [] a.f = "or_i" ->
             {Sat(sx.witness \o <<FlagItem("1")>>, sx.nLockTime, sx.nSequence) :
                  sx \in Satisfactions(a.x, sigs, preimages)}
             \cup
             {Sat(sy.witness \o <<FlagItem("0")>>, sy.nLockTime, sy.nSequence) :
                  sy \in Satisfactions(a.y, sigs, preimages)}
      [] a.f = "multi" ->
             LET have == {i \in DOMAIN a.keys : \E g \in sigs : g.pubkey = a.keys[i]}
                 sigOf(i) == CHOOSE g \in sigs : g.pubkey = a.keys[i]
                 pick(c) == [j \in 1..Len(a.keys) |->
                                IF j \in c THEN <<SigItem(sigOf(j))>> ELSE <<>>]
                 RECURSIVE flat(_, _)
                 flat(p, j) ==
                     IF j > Len(p) THEN <<>>
                     ELSE IF j = Len(p) THEN p[j]
                     ELSE LET mid == (j + Len(p)) \div 2 IN
                          flat(SubSeq(p, 1, mid), j) \o flat(p, mid + 1)
             IN  {Sat(<<FlagItem("0")>> \o flat(pick(c), 1), NumUndef, NumUndef) :
                      c \in {d \in SUBSET have : Cardinality(d) = a.k}}
      [] a.f = "and_v_chain" ->
             {Both(Sat(Repeated(sx.witness, a.n), sx.nLockTime, sx.nSequence), sy) :
                  sx \in Satisfactions(a.x, sigs, preimages),
                  sy \in Satisfactions(a.y, sigs, preimages)}

\* The timeConstraints argument left out of the call.
NoTimeConstraints == [given |-> FALSE, nLockTime |-> NumUndef, nSequence |-> NumUndef]

TimeConstraints(lock, seq) == [given |-> TRUE, nLockTime |-> lock, nSequence |-> seq]

\* The result of a run that found nothing.
Incomplete ==
    [found |-> FALSE, scriptSatisfaction |-> <<>>, nLockTime |-> NumUndef,
     nSequence |-> NumUndef]

\* satisfyMiniscript({expandedMiniscript, expansionMap, signatures,
\* preimages, timeConstraints}): among the satisfactions consistent with the
\* time constraints given, one of the smallest weight.
satisfyMiniscript(expandedMiniscript, expansionMap, signatures, preimages, timeConstraints) ==
    LET Least(kept) ==
            CHOOSE x \in kept :
                \A y \in kept : WitnessWeight(x.witness) <= WitnessWeight(y.witness)
        Found(x) ==
            [found |-> TRUE, scriptSatisfaction |-> x.witness,
             nLockTime |-> x.nLockTime, nSequence |-> x.nSequence]
        Among(kept) == IF kept = {} THEN Incomplete ELSE Found(Least(kept))
    IN  Among({x \in Satisfactions(Resolve(expandedMiniscript, expansionMap),
                                   signatures, preimages) :
                  timeConstraints.given =>
                      /\ x.nLockTime = timeConstraints.nLockTime
                      /\ x.nSequence = timeConstraints.nSequence})

(***************************************************************************)
(* Payments and addresses (bitcoinjs-lib, used at src/src/index.ts 25 and   *)
(* 245-263).  A hash is the text it was taken of, under the name of the     *)
(* hash function.                                                           *)
(***************************************************************************)

RECURSIVE ScriptText(_)
\* The serialization of a script, as a text.
ScriptText(script) ==
    IF script = <<>> THEN <<>>
    ELSE IF Len(script) = 1
    THEN LET c == script[1] IN
         ToDecimal(c.op + 1) \o <<".">> \o ToDecimal(c.bytes) \o <<".">> \o ToDecimal(c.n)
             \o <<":">> \o c.data \o <<";">>
    ELSE LET mid == Len(script) \div 2 IN
         ScriptText(SubSeq(script, 1, mid)) \o ScriptText(SubSeq(script, mid + 1, Len(script)))

Hash160(text) == <<"hash160(">> \o text \o <<")">>

Sha256Of(text) == <<"sha256(">> \o text \o <<")">>

NoPayment ==
    [name |-> "none", output |-> <<>>, address |-> Undef, hasRedeem |-> FALSE,
     redeemOutput |-> <<>>]

AddressOf(output) == <<"address(">> \o ScriptText(output) \o <<")">>

\* p2pk({pubkey}): there is no address for a pay-to-pubkey output.
p2pk(pubkey) ==
    [NoPayment EXCEPT !.name = "p2pk",
                      !.output = <<KeyPush(pubkey), Chunk(OPS.OP_CHECKSIG, 1)>>]

p2pkhOutput(pubkey) ==
    <<Chunk(OPS.OP_DUP, 1), Chunk(OPS.OP_HASH160, 1), DataPushOf(20, Hash160(pubkey)),
      Chunk(OPS.OP_EQUALVERIFY, 1), Chunk(OPS.OP_CHECKSIG, 1)>>

p2pkh(pubkey) ==
    [NoPayment EXCEPT !.name = "p2pkh", !.output = p2pkhOutput(pubkey),
                      !.address = AddressOf(p2pkhOutput(pubkey))]

p2wpkhOutput(pubkey) == <<Chunk(OPS.OP_0, 1), DataPushOf(20, Hash160(pubkey))>>

p2wpkh(pubkey) ==
    [NoPayment EXCEPT !.name = "p2wpkh", !.output = p2wpkhOutput(pubkey),
                      !.address = AddressOf(p2wpkhOutput(pubkey))]

p2wshOutput(script) == <<Chunk(OPS.OP_0, 1), DataPushOf(32, Sha256Of(ScriptText(script)))>>

\* p2wsh({redeem: {output: script}}).
p2wsh(script) ==
    [name |-> "p2wsh", output |-> p2wshOutput(script),
     address |-> AddressOf(p2wshOutput(script)), hasRedeem |-> TRUE,
     redeemOutput |-> script]

p2shOutput(script) ==
    <<Chunk(OPS.OP_HASH160, 1), DataPushOf(20, Hash160(ScriptText(script))),
      Chunk(OPS.OP_EQUAL, 1)>>

\* p2sh({redeem: {output: script}}).
p2sh(script) ==
    [name |-> "p2sh", output |-> p2shOutput(script),
     address |-> AddressOf(p2shOutput(script)), hasRedeem |-> TRUE,
     redeemOutput |-> script]

\* The addresses address.toOutputScript decodes; every other text throws.
AddrGood == <<"q">>

AddrBad == <<"z">>

DecodedOutput(addressText) == <<DataPushOf(20, <<"program(">> \o addressText \o <<")">>)>>

toOutputScript(addressText) ==
    IF addressText = AddrGood
    THEN [ok |-> TRUE, output |-> DecodedOutput(addressText)]
    ELSE [ok |-> FALSE, output |-> <<>>]

\* The templates of the addr production, in the order they are tried.
Templates == <<"p2pkh", "p2sh", "p2wpkh", "p2wsh", "p2tr">>

\* What a template returns for {output}.
FromOutput(name, output, addressText) ==
    [NoPayment EXCEPT !.name = name, !.output = output, !.address = addressText]

(***************************************************************************)
(* The Descriptor constructor (src/src/index.ts 201-499)                    *)
(***************************************************************************)

NoScript == [def |-> FALSE, script |-> <<>>]

SomeScript(script) == [def |-> TRUE, script |-> script]

\* The private fields.  #preimages and #signersKeyExpressions hold the
\* arrays the caller passed, not copies: their contents are read from the
\* arrays themselves, and signersGiven tells whether #signersKeyExpressions
\* was set at all.
EmptyDesc ==
    [payment |-> NoPayment, miniscript |-> Undef, witnessScript |-> NoScript,
     redeemScript |-> NoScript, isSegwit |-> "undefined", expandedExpression |-> Undef,
     expandedMiniscript |-> Undef, hasExpansionMap |-> FALSE, expansionMap |-> <<>>,
     signersGiven |-> FALSE]

\* What a construction call went through: the evaluated text, the
\* production that matched, whether the expander and the compiler ran, the
\* compiled script, and the outcome of each address template tried.
NoLocal ==
    [evaluatedExpression |-> Undef, production |-> "none", miniscript |-> Undef,
     expanded |-> FALSE, compiled |-> FALSE, script |-> <<>>, decoded |-> FALSE,
     tried |-> <<>>]

Failure(e, loc) == [ok |-> FALSE, desc |-> EmptyDesc, err |-> e, local |-> loc]

Success(d, loc) == [ok |-> TRUE, desc |-> d, err |-> NoErr, local |-> loc]

\* The text between a prefix and a suffix of s.
Inside(s, prefix, suffix) == SubSeq(s, Len(prefix) + 1, Len(s) - Len(suffix))

\* An anchored pattern prefix(.*?)suffix matches the whole of s.
MatchesAround(s, prefix, suffix) ==
    Len(s) >= Len(prefix) + Len(suffix) /\ StartsWith(s, prefix) /\ EndsWith(s, suffix)

\* An anchored pattern prefix KEY suffix matches the whole of s.
MatchesKey(s, prefix, suffix) ==
    MatchesAround(s, prefix, suffix) /\ IsKeyExp(Inside(s, prefix, suffix))

reAddrAnchored(s) == MatchesAround(s, TXT_addr, <<")">>)

rePkAnchored(s) == MatchesKey(s, TXT_pk, <<")">>)

rePkhAnchored(s) == MatchesKey(s, TXT_pkh, <<")">>)

reShWpkhAnchored(s) == MatchesKey(s, TXT_sh_wpkh, <<")", ")">>)

reWpkhAnchored(s) == MatchesKey(s, TXT_wpkh, <<")">>)

reShWshMiniscriptAnchored(s) == MatchesAround(s, TXT_sh_wsh, <<")", ")">>)

reShMiniscriptAnchored(s) == MatchesAround(s, TXT_sh, <<")">>)

reWshMiniscriptAnchored(s) == MatchesAround(s, TXT_wsh, <<")">>)

RECURSIVE TryTemplatesFirstWins(_, _, _, _, _)
\* The templates tried in turn with the first one that accepts kept.
TryTemplatesFirstWins(i, payment, templateOk, output, addressText) ==
    IF i > Len(Templates) THEN payment
    ELSE TryTemplatesFirstWins(i + 1,
             IF templateOk[i] /\ payment.name = "none"
             THEN FromOutput(Templates[i], output, addressText) ELSE payment,
             templateOk, output, addressText)

RECURSIVE TryTemplates(_, _, _, _, _)
\* src/src/index.ts 249-263: each template is tried in turn, and a template
\* that does not throw assigns payment.  templateOk[i] tells whether the
\* i-th template accepts the output.
TryTemplates(i, payment, templateOk, output, addressText) ==
    IF i > Len(Templates) THEN payment
    ELSE TryTemplates(i + 1,
             IF templateOk[i] THEN FromOutput(Templates[i], output, addressText)
             ELSE payment,
             templateOk, output, addressText)

\* addr(ADDR), src/src/index.ts 233-268.
AddrProduction(a, ev, loc0) ==
    LET matchedAddress == Inside(ev, TXT_addr, <<")">>)
        loc1 == [loc0 EXCEPT !.production = "addr"]
    IN  IF matchedAddress = <<>>
        THEN Failure(Err("could_not_get_address", "evaluatedExpression", ev), loc1)
        ELSE LET dec == toOutputScript(matchedAddress) IN
             IF ~dec.ok
             THEN Failure(Err("invalid_address", "address", matchedAddress), loc1)
             ELSE LET payment == TryTemplates(1, NoPayment, a.templateOk, dec.output,
                                              matchedAddress)
                      loc2 == [loc1 EXCEPT !.decoded = TRUE, !.tried = a.templateOk]
                  IN  IF payment.name = "none"
                      THEN Failure(Err("invalid_address", "address", matchedAddress), loc2)
                      ELSE Success([EmptyDesc EXCEPT !.payment = payment,
                                                     !.signersGiven = a.signersGiven],
                                   loc2)

\* The key productions pk, pkh, sh(wpkh) and wpkh share their steps
\* (src/src/index.ts 270-288, 290-307, 309-333, 335-352): the leftmost key
\* expression of the text is taken, the text must be exactly the production
\* around it, and the key is parsed under the production's segwit flag.
KeyProduction(a, ev, loc0, production, prefix, suffix, isSegwit) ==
    LET Built(keyExpression, key, payment) ==
            [EmptyDesc EXCEPT
                !.isSegwit = IF isSegwit THEN "true" ELSE "false",
                !.expandedExpression = prefix \o Placeholder(0) \o suffix,
                !.hasExpansionMap = TRUE,
                !.expansionMap =
                    <<[keyExpression |-> keyExpression, pubkey |-> key.pubkey,
                       bip32 |-> key.bip32]>>,
                !.payment = payment,
                !.redeemScript =
                    IF production = "sh(wpkh)"
                    THEN SomeScript(payment.redeemOutput) ELSE NoScript,
                !.signersGiven = a.signersGiven]
        Parsed(loc1, keyExpression, key) ==
            IF ~key.ok THEN Failure(key.err, loc1)
            ELSE Success(Built(keyExpression, key,
                               CASE production = "pk"       -> p2pk(key.pubkey)
                                 [] production = "pkh"      -> p2pkh(key.pubkey)
                                 [] production = "sh(wpkh)" ->
                                        p2sh(p2wpkhOutput(key.pubkey))
                                 [] production = "wpkh"     -> p2wpkh(key.pubkey)),
                         loc1)
        Matched(loc1, keyExpression) ==
            IF keyExpression = Undef
            THEN Failure(Err("key_not_extracted", "none", <<>>), loc1)
            ELSE IF ev # prefix \o keyExpression \o suffix
            THEN Failure(Err("invalid_expression", "expression", a.expression), loc1)
            ELSE Parsed(loc1, keyExpression, parseKeyExpression(keyExpression, isSegwit))
    IN  Matched([loc0 EXCEPT !.production = production], MatchKeyExp(ev))

PkProduction(a, ev, loc0) == KeyProduction(a, ev, loc0, "pk", TXT_pk, <<")">>, FALSE)

PkhProduction(a, ev, loc0) == KeyProduction(a, ev, loc0, "pkh", TXT_pkh, <<")">>, FALSE)

\* sh(wpkh(KEY)) with the redeem script left unset.
ShWpkhProduction_NoRedeem(a, ev, loc0) ==
    LET Without(r) == [r EXCEPT !.desc.redeemScript = NoScript]
    IN  Without(KeyProduction(a, ev, loc0, "sh(wpkh)", TXT_sh_wpkh, <<")", ")">>, TRUE))

ShWpkhProduction(a, ev, loc0) ==
    KeyProduction(a, ev, loc0, "sh(wpkh)", TXT_sh_wpkh, <<")", ")">>, TRUE)

WpkhProduction(a, ev, loc0) == KeyProduction(a, ev, loc0, "wpkh", TXT_wpkh, <<")">>, TRUE)

MAX_SCRIPT_ELEMENT_SIZE == 520

MAX_STANDARD_P2WSH_SCRIPT_SIZE == 3600

MAX_OPS_PER_SCRIPT == 201

\* The two checks with the limits themselves rejected.
ScriptLimits_AtLeast(script, maxSize, tooLarge) ==
    LET Checked(size, nonPushOnlyOps) ==
            IF size >= maxSize
            THEN Err(tooLarge, "sizes", ToDecimal(size))
            ELSE IF nonPushOnlyOps >= MAX_OPS_PER_SCRIPT
            THEN Err("too_many_ops", "sizes", ToDecimal(nonPushOnlyOps))
            ELSE NoErr
    IN  Checked(byteLength(script), countNonPushOnlyOPs(script))

\* The two checks on a compiled script: the error, or NoErr.
ScriptLimits(script, maxSize, tooLarge) ==
    LET Checked(size, nonPushOnlyOps) ==
            IF size > maxSize
            THEN Err(tooLarge, "sizes", ToDecimal(size))
            ELSE IF nonPushOnlyOps > MAX_OPS_PER_SCRIPT
            THEN Err("too_many_ops", "sizes", ToDecimal(nonPushOnlyOps))
            ELSE NoErr
    IN  Checked(byteLength(script), countNonPushOnlyOPs(script))

\* The steps the three miniscript productions share once the miniscript is
\* accepted (src/src/index.ts 363-400, 425-456, 468-495): expand, compile,
\* check the script against the limits, build the payment.
MiniscriptProduction(a, loc1, miniscript, prefix, suffix, isSegwit, maxSize, tooLarge) ==
    LET Built(x, script, payment) ==
            [EmptyDesc EXCEPT
                !.isSegwit = IF isSegwit THEN "true" ELSE "false",
                !.miniscript = miniscript,
                !.expandedMiniscript = x.expandedMiniscript,
                !.hasExpansionMap = TRUE,
                !.expansionMap = x.expansionMap,
                !.expandedExpression = prefix \o x.expandedMiniscript \o suffix,
                !.witnessScript = IF isSegwit THEN SomeScript(script) ELSE NoScript,
                !.redeemScript =
                    IF loc1.production = "wsh" THEN NoScript
                    ELSE SomeScript(payment.redeemOutput),
                !.payment = payment,
                !.signersGiven = a.signersGiven]
        Checked(x, script, loc3, limit) ==
            IF limit # NoErr THEN Failure(limit, loc3)
            ELSE Success(Built(x, script,
                               CASE loc1.production = "sh(wsh)" -> p2sh(p2wshOutput(script))
                                 [] loc1.production = "sh"      -> p2sh(script)
                                 [] loc1.production = "wsh"     -> p2wsh(script)),
                         loc3)
        Compiled(x, loc2, script) ==
            Checked(x, script, [loc2 EXCEPT !.compiled = TRUE, !.script = script],
                    ScriptLimits(script, maxSize, tooLarge))
        Expanded1(x, loc2) ==
            IF ~x.ok THEN Failure(x.err, loc2)
            ELSE Compiled(x, loc2, miniscript2Script(x.expandedMiniscript, x.expansionMap))
    IN  Expanded1(expandMiniscript(miniscript, isSegwit),
                  [loc1 EXCEPT !.miniscript = miniscript, !.expanded = TRUE])

\* sh(wsh(miniscript)), src/src/index.ts 354-401.
ShWshProduction(a, ev, loc0) ==
    LET miniscript == Inside(ev, TXT_sh_wsh, <<")", ")">>)
        loc1       == [loc0 EXCEPT !.production = "sh(wsh)"]
    IN  IF miniscript = <<>>
        THEN Failure(Err("could_not_get_miniscript", "evaluatedExpression", ev), loc1)
        ELSE MiniscriptProduction(a, loc1, miniscript, TXT_sh_wsh, <<")", ")">>, TRUE,
                                  MAX_STANDARD_P2WSH_SCRIPT_SIZE, "script_too_large")

\* The top-level expressions allowed within sh without allowMiniscriptInP2SH.
ShWhitelist ==
    {<<"p", "k", "(">>, <<"p", "k", "h", "(">>, <<"w", "p", "k", "h", "(">>,
     <<"c", "o", "m", "b", "o", "(">>, <<"m", "u", "l", "t", "i", "(">>,
     <<"s", "o", "r", "t", "e", "d", "m", "u", "l", "t", "i", "(">>,
     <<"m", "u", "l", "t", "i", "_", "a", "(">>,
     <<"s", "o", "r", "t", "e", "d", "m", "u", "l", "t", "i", "_", "a", "(">>}

\* miniscript.search(/^(pk\(|...)/) === 0.
Whitelisted(miniscript) == \E prefix \in ShWhitelist : StartsWith(miniscript, prefix)

\* sh(MINISCRIPT) without the check of the top fragment.
ShProduction_NoWhitelist(a, ev, loc0) ==
    LET miniscript == Inside(ev, TXT_sh, <<")">>)
        loc1       == [loc0 EXCEPT !.production = "sh"]
    IN  IF miniscript = <<>>
        THEN Failure(Err("could_not_get_miniscript", "evaluatedExpression", ev), loc1)
        ELSE MiniscriptProduction(a, loc1, miniscript, TXT_sh, <<")">>, FALSE,
                                  MAX_SCRIPT_ELEMENT_SIZE, "p2sh_script_too_large")

\* sh(miniscript), src/src/index.ts 403-457.
ShProduction(a, ev, loc0) ==
    LET miniscript == Inside(ev, TXT_sh, <<")">>)
        loc1       == [loc0 EXCEPT !.production = "sh"]
    IN  IF miniscript = <<>>
        THEN Failure(Err("could_not_get_miniscript", "evaluatedExpression", ev), loc1)
        ELSE IF a.allowMiniscriptInP2SH = FALSE /\ ~Whitelisted(miniscript)
        THEN Failure(Err("miniscript_only_in_wsh", "none", <<>>), loc1)
        ELSE MiniscriptProduction(a, loc1, miniscript, TXT_sh, <<")">>, FALSE,
                                  MAX_SCRIPT_ELEMENT_SIZE, "p2sh_script_too_large")

\* wsh(miniscript), src/src/index.ts 459-495.
WshProduction(a, ev, loc0) ==
    LET miniscript == Inside(ev, TXT_wsh, <<")">>)
        loc1       == [loc0 EXCEPT !.production = "wsh"]
    IN  IF miniscript = <<>>
        THEN Failure(Err("could_not_get_miniscript", "evaluatedExpression", ev), loc1)
        ELSE MiniscriptProduction(a, loc1, miniscript, TXT_wsh, <<")">>, TRUE,
                                  MAX_STANDARD_P2WSH_SCRIPT_SIZE, "script_too_large")

\* The construction with the sh(MINISCRIPT) pattern tried before the
\* patterns of sh(wpkh(KEY)) and sh(wsh(MINISCRIPT)).
Descriptor_ShFirst(a) ==
    LET Dispatch(ev, loc0) ==
            IF reAddrAnchored(ev) THEN AddrProduction(a, ev, loc0)
            ELSE IF rePkAnchored(ev) THEN PkProduction(a, ev, loc0)
            ELSE IF rePkhAnchored(ev) THEN PkhProduction(a, ev, loc0)
            ELSE IF reShMiniscriptAnchored(ev) THEN ShProduction(a, ev, loc0)
            ELSE IF reShWpkhAnchored(ev) THEN ShWpkhProduction(a, ev, loc0)
            ELSE IF reWpkhAnchored(ev) THEN WpkhProduction(a, ev, loc0)
            ELSE IF reShWshMiniscriptAnchored(ev) THEN ShWshProduction(a, ev, loc0)
            ELSE IF reWshMiniscriptAnchored(ev) THEN WshProduction(a, ev, loc0)
            ELSE Failure(Err("could_not_parse", "expression", a.expression), loc0)
        Evaluated1(e) ==
            IF ~e.ok THEN Failure(e.err, NoLocal)
            ELSE Dispatch(e.value, [NoLocal EXCEPT !.evaluatedExpression = e.value])
    IN  Evaluated1(evaluate(a.expression, a.checksumRequired, a.index))

\* new Descriptor(a): the fields of the new object, or the error thrown.
Descriptor(a) ==
    LET Dispatch(ev, loc0) ==
            IF reAddrAnchored(ev) THEN AddrProduction(a, ev, loc0)
            ELSE IF rePkAnchored(ev) THEN PkProduction(a, ev, loc0)
            ELSE IF rePkhAnchored(ev) THEN PkhProduction(a, ev, loc0)
            ELSE IF reShWpkhAnchored(ev) THEN ShWpkhProduction(a, ev, loc0)
            ELSE IF reWpkhAnchored(ev) THEN WpkhProduction(a, ev, loc0)
            ELSE IF reShWshMiniscriptAnchored(ev) THEN ShWshProduction(a, ev, loc0)
            ELSE IF reShMiniscriptAnchored(ev) THEN ShProduction(a, ev, loc0)
            ELSE IF reWshMiniscriptAnchored(ev) THEN WshProduction(a, ev, loc0)
            ELSE Failure(Err("could_not_parse", "expression", a.expression), loc0)
        Evaluated1(e) ==
            IF ~e.ok THEN Failure(e.err, NoLocal)
            ELSE Dispatch(e.value, [NoLocal EXCEPT !.evaluatedExpression = e.value])
    IN  Evaluated1(evaluate(a.expression, a.checksumRequired, a.index))

(***************************************************************************)
(* The methods (src/src/index.ts 506-710).  d is the object's fields;       *)
(* preimages and signers are the present contents of the arrays that        *)
(* #preimages and #signersKeyExpressions refer to.                          *)
(***************************************************************************)

NoTime == [def |-> FALSE, nLockTime |-> NumUndef, nSequence |-> NumUndef]

FakeSignatures(d, signers) ==
    LET Signed(signersKeyExpressions) ==
            {[pubkey    |-> parseKeyExpression(signersKeyExpressions[i],
                                               d.isSegwit = "true").pubkey,
              signature |-> ZeroSignature] : i \in DOMAIN signersKeyExpressions}
    IN  Signed(IF ~d.signersGiven
               THEN [i \in DOMAIN d.expansionMap |-> d.expansionMap[i].pubkey]
               ELSE signers)

\* #getTimeConstraints(): undefined without a miniscript, else the pair of
\* the satisfaction found with an all-zero signature for every signer.
getTimeConstraints(d, preimages, signers) ==
    LET Pair(sat) == [def |-> TRUE, nLockTime |-> sat.nLockTime, nSequence |-> sat.nSequence]
    IN  IF d.miniscript # Undef
        THEN Pair(satisfyMiniscript(d.expandedMiniscript, d.expansionMap,
                                    FakeSignatures(d, signers), preimages,
                                    NoTimeConstraints))
        ELSE NoTime

getSequence(d, preimages, signers) == getTimeConstraints(d, preimages, signers).nSequence

getLockTime(d, preimages, signers) == getTimeConstraints(d, preimages, signers).nLockTime

getAddress(d) ==
    IF d.payment.address = Undef
    THEN Throw(Err("no_address", "none", <<>>))
    ELSE Return(d.payment.address)

getScriptPubKey(d) ==
    IF d.payment.output = <<>>
    THEN Throw(Err("no_output", "none", <<>>))
    ELSE Return(d.payment.output)

getWitnessScript(d) == d.witnessScript

getRedeemScript(d) == d.redeemScript

isSegwit(d) ==
    IF d.isSegwit = "undefined"
    THEN Throw(Err("segwit_undetermined", "none", <<>>))
    ELSE Return(d.isSegwit = "true")

expand(d) ==
    [expandedExpression |-> d.expandedExpression, miniscript |-> d.miniscript,
     expandedMiniscript |-> d.expandedMiniscript, hasExpansionMap |-> d.hasExpansionMap,
     expansionMap |-> d.expansionMap]

\* The end of getScriptSatisfaction, src/src/index.ts 588-590.
Satisfied(sat) ==
    IF ~sat.found
    THEN Throw(Err("no_valid_satisfaction", "none", <<>>))
    ELSE Return(sat.scriptSatisfaction)

\* The satisfaction computed without the time constraints.
getScriptSatisfaction_Unconstrained(d, preimages, signers, signatures) ==
    IF d.miniscript = Undef \/ d.expandedMiniscript = Undef \/ ~d.hasExpansionMap
    THEN Throw(Err("not_expanded", "miniscript", d.miniscript))
    ELSE Satisfied(satisfyMiniscript(d.expandedMiniscript, d.expansionMap, signatures,
                                     preimages, NoTimeConstraints))

\* getScriptSatisfaction(signatures): the witness of a satisfaction that
\* keeps the pair of getLockTime() and getSequence(), or an error.
getScriptSatisfaction(d, preimages, signers, signatures) ==
    IF d.miniscript = Undef \/ d.expandedMiniscript = Undef \/ ~d.hasExpansionMap
    THEN Throw(Err("not_expanded", "miniscript", d.miniscript))
    ELSE Satisfied(satisfyMiniscript(d.expandedMiniscript, d.expansionMap, signatures,
                                     preimages,
                                     TimeConstraints(getLockTime(d, preimages, signers),
                                                     getSequence(d, preimages, signers))))

(***************************************************************************)
(* updatePsbt (src/src/index.ts 615-673).  The psbt is its locktime and its *)
(* inputs; the transaction spent from has NumOuts outputs, and addInput     *)
(* throws on an input that is already there.                                *)
(***************************************************************************)

NumOuts == 1

SEQUENCE_FINAL_MINUS_ONE == U32(65535, 65534)

Zero32 == U32(0, 0)

Input(txHex, vout, d, inputSequence) ==
    [hash |-> txHex, index |-> vout, partialSig |-> {}, finalized |-> "no",
     finalScriptWitness |-> Undef,
     bip32Derivation |->
         SelectSeq([i \in DOMAIN d.expansionMap |-> d.expansionMap[i]],
                   LAMBDA keyInfo : keyInfo.bip32),
     witnessUtxo |-> IF d.isSegwit = "true" THEN d.payment.output ELSE <<>>,
     sequence |-> inputSequence,
     witnessScript |-> d.witnessScript,
     redeemScript |-> d.redeemScript]

Duplicate(psbt, input) ==
    \E i \in DOMAIN psbt.inputs :
        psbt.inputs[i].hash = input.hash /\ psbt.inputs[i].index = input.index

\* The outcome of a call and the psbt it leaves.
Outcome(r, psbt) == [ok |-> r.ok, value |-> r.value, err |-> r.err, psbt |-> psbt]

\* The descriptor's sequence taken as it is, whatever the locktime.
InputSequence_AsDerived(txLockTime, inputSequence) == Return(inputSequence)

\* The sequence of the input, src/src/index.ts 628-637: the result holds
\* the sequence, or the error of an incompatible pair.
InputSequence(txLockTime, inputSequence) ==
    IF txLockTime # NumUndef
    THEN IF inputSequence = NumUndef THEN Return(SEQUENCE_FINAL_MINUS_ONE)
         ELSE IF GtU32(inputSequence, SEQUENCE_FINAL_MINUS_ONE)
         THEN Throw(Err("incompatible_sequence", "sequence", <<>>))
         ELSE Return(inputSequence)
    ELSE Return(inputSequence)

\* updatePsbt(txHex, vout, psbt): the index of the input added, or an error.
updatePsbt(d, preimages, signers, txHex, vout, psbt) ==
    LET Add(psbt1, input) ==
            IF Duplicate(psbt1, input)
            THEN Outcome(Throw(Err("duplicate_input", "none", <<>>)), psbt1)
            ELSE Outcome(Return(Len(psbt1.inputs)),
                         [psbt1 EXCEPT !.inputs = Append(@, input)])
        Build(psbt1, seq, segwit) ==
            IF ~seq.ok THEN Outcome(seq, psbt1)
            ELSE IF ~segwit.ok THEN Outcome(segwit, psbt1)
            ELSE Add(psbt1, Input(txHex, vout, d, seq.value))
        Lock(txLockTime, derived) ==
            IF txLockTime # NumUndef /\ psbt.locktime # Zero32
            THEN Outcome(Throw(Err("locktime_already_set", "locktime", <<>>)), psbt)
            ELSE Build(IF txLockTime # NumUndef THEN [psbt EXCEPT !.locktime = txLockTime]
                       ELSE psbt,
                       InputSequence(txLockTime, derived), isSegwit(d))
    IN  IF vout >= NumOuts
        THEN Outcome(Throw(Err("no_vout", "vout", ToDecimal(vout))), psbt)
        ELSE Lock(getLockTime(d, preimages, signers), getSequence(d, preimages, signers))

(***************************************************************************)
(* finalizePsbtInput (src/src/index.ts 675-689).  An input holds the        *)
(* partial signatures the caller's signers put on it; psbt.finalizeInput    *)
(* replaces them by the final witness.                                      *)
(***************************************************************************)

\* psbt.finalizeInput(index, finalScriptsFunc): the input finalized with the
\* witness the function builds, "custom", or with the one the standard
\* finalizers build, "standard".
finalizeInput(psbt, index, how, witness) ==
    [psbt EXCEPT !.inputs[index + 1] =
        [@ EXCEPT !.partialSig = {}, !.finalized = how, !.finalScriptWitness = witness]]

\* !scriptSatisfaction: a Buffer is an object, and no object is falsy.
Falsy(buffer) == FALSE

\* finalizePsbtInput with the standard finalizers taken when
\* getScriptSatisfaction throws.
finalizePsbtInput_StandardOnFailure(d, preimages, signers, index, psbt) ==
    LET Finalize(scriptSatisfaction) ==
            IF ~scriptSatisfaction.ok \/ Falsy(scriptSatisfaction.value)
            THEN Outcome(Return(Undef), finalizeInput(psbt, index, "standard", Undef))
            ELSE Outcome(Return(Undef),
                         finalizeInput(psbt, index, "custom", scriptSatisfaction.value))
    IN  IF index >= Len(psbt.inputs) \/ psbt.inputs[index + 1].partialSig = {}
        THEN Outcome(Throw(Err("no_signatures", "none", <<>>)), psbt)
        ELSE Finalize(getScriptSatisfaction(d, preimages, signers,
                                            psbt.inputs[index + 1].partialSig))

\* finalizePsbtInput(index, psbt): nothing, or an error.
finalizePsbtInput(d, preimages, signers, index, psbt) ==
    LET Finalize(scriptSatisfaction) ==
            IF ~scriptSatisfaction.ok THEN Outcome(scriptSatisfaction, psbt)
            ELSE IF Falsy(scriptSatisfaction.value)
            THEN Outcome(Return(Undef), finalizeInput(psbt, index, "standard", Undef))
            ELSE Outcome(Return(Undef),
                         finalizeInput(psbt, index, "custom", scriptSatisfaction.value))
    IN  IF index >= Len(psbt.inputs) \/ psbt.inputs[index + 1].partialSig = {}
        THEN Outcome(Throw(Err("no_signatures", "none", <<>>)), psbt)
        ELSE Finalize(getScriptSatisfaction(d, preimages, signers,
                                            psbt.inputs[index + 1].partialSig))

(***************************************************************************)
(* The calls a caller makes                                                 *)
(***************************************************************************)

NoTemplates == [i \in DOMAIN Templates |-> FALSE]

\* The constructor's argument, with the defaults of src/src/index.ts
\* 201-217.  preimages and signers are the contents of the caller's arrays
\* at the call; templateOk is what the payment templates make of the
\* decoded address.
Args(expression) ==
    [expression |-> expression, index |-> NoIndex, checksumRequired |-> FALSE,
     allowMiniscriptInP2SH |-> FALSE, preimages |-> <<>>, signersGiven |-> FALSE,
     signers |-> <<>>, templateOk |-> NoTemplates]

Wsh(a) == TXT_wsh \o MiniscriptText(a) \o <<")">>

Sh(a) == TXT_sh \o MiniscriptText(a) \o <<")">>

ShWsh(a) == TXT_sh_wsh \o MiniscriptText(a) \o <<")", ")">>

WithChecksum(body) == Append(body, "#") \o DescriptorChecksum(body)

\* The characters a caller's typing error puts in place of another.
Typos == <<"q", "7", "B", ")">>

\* The texts that differ from text in the one character at position i.
MutationsAt(text, i) ==
    {[text EXCEPT ![i] = Typos[k]] : k \in {j \in DOMAIN Typos : Typos[j] # text[i]}}

ChecksumBodies ==
    {Wsh(FragPkA), TXT_wpkh \o KeyXWild \o <<")">>, TXT_addr \o AddrGood \o <<")">>}

\* Texts with a checksum: right, and wrong in one character of the body or
\* of the checksum.
ChecksumInputs ==
    LET Wrong(text) ==
            UNION {MutationsAt(text, i) : i \in (1..(Len(text) - 9)) \cup ((Len(text) - 7)..Len(text))}
        Texts(right) == right \cup UNION {Wrong(text) : text \in right}
    IN  {[Args(text) EXCEPT !.checksumRequired = req, !.index = Idx(0),
                            !.templateOk = [NoTemplates EXCEPT ![1] = TRUE]] :
            text \in Texts({WithChecksum(body) : body \in ChecksumBodies}), req \in BOOLEAN}

RangedBodies ==
    {TXT_wpkh \o KeyXWild \o <<")">>, Wsh(FragPkX), Wsh(FragMultiRanged)}

Indices == {NoIndex, Half(1), Half(-1), Idx(-1)} \cup {Idx(i) : i \in 0..MaxIndex}

RangedInputs ==
    {[Args(body) EXCEPT !.index = index, !.checksumRequired = req] :
        body \in RangedBodies, index \in Indices, req \in {FALSE}}
        \cup {[Args(body) EXCEPT !.checksumRequired = TRUE] : body \in RangedBodies}

KeyInputs ==
    {Args(TXT_pk \o k \o <<")">>) : k \in {KeyA, KeyU}}
        \cup {Args(TXT_pkh \o KeyA \o <<")">>), Args(TXT_wpkh \o KeyA \o <<")">>),
              Args(TXT_wpkh \o KeyU \o <<")">>), Args(TXT_sh_wpkh \o KeyA \o <<")", ")">>),
              Args(<<"t", "r", "(">> \o KeyA \o <<")">>), Args(TXT_pk \o <<")">>)}

AddrInputs ==
    {[Args(TXT_addr \o addressText \o <<")">>) EXCEPT !.templateOk = templateOk] :
        addressText \in {AddrGood, AddrBad, <<>>},
        templateOk \in [DOMAIN Templates -> BOOLEAN]}

\* Fragments at and around the limits.
LimitFragments ==
    {FragLen3600, FragLen3601, FragLen520, FragLen521, FragOps201, FragOps202,
     FragMulti16, FragMulti, FragPkA, FragOlder}

LimitInputs ==
    {[Args(text) EXCEPT !.allowMiniscriptInP2SH = allow] :
        text \in {Wsh(a) : a \in LimitFragments} \cup {Sh(a) : a \in LimitFragments}
                    \cup {ShWsh(a) : a \in LimitFragments},
        allow \in BOOLEAN}

\* Fragments with timelocks, and the arrays a caller passes with them.
TimedFragments ==
    {FragOlder, FragAfter, FragOrOlder, FragHashOrAfter, FragAfterOlder, FragAfterFinal}

SignerArrays == {<<>>, <<KeyA>>}

\* Fragments with more than one way to satisfy them.
BranchingFragments == {FragOrOlder, FragHashOrAfter}

TimedInputs ==
    {[Args(Wsh(a)) EXCEPT !.signersGiven = TRUE, !.signers = signers] :
        a \in BranchingFragments, signers \in SignerArrays}
        \cup {Args(Wsh(a)) : a \in TimedFragments}

\* The descriptors whose methods are called.
MethodInputs ==
    TimedInputs
        \cup {Args(TXT_pk \o KeyA \o <<")">>), Args(TXT_sh_wpkh \o KeyA \o <<")", ")">>),
              [Args(TXT_wpkh \o KeyXWild \o <<")">>) EXCEPT !.index = Idx(1)],
              [Args(TXT_addr \o AddrGood \o <<")">>) EXCEPT
                  !.templateOk = [NoTemplates EXCEPT ![1] = TRUE]],
              Args(Sh(FragOlder))}

\* Texts that fail at more than one step, or that more than one pattern
\* matches: a ranged body without an index, with a right and with a wrong
\* checksum; a text no production takes, with a wrong checksum; sh(wsh())
\* and sh(wpkh(KEY)) with an uncompressed key.
OrderInputs ==
    LET ranged == WithChecksum(Wsh(FragPkX))
        other  == WithChecksum(<<"t", "r", "(">> \o KeyA \o <<")">>)
    IN  {[Args(text) EXCEPT !.checksumRequired = req] :
            text \in {ranged, [ranged EXCEPT ![Len(ranged)] = IF @ = "q" THEN "7" ELSE "q"],
                      other, [other EXCEPT ![Len(other)] = IF @ = "q" THEN "7" ELSE "q"],
                      TXT_sh_wsh \o <<")", ")">>, TXT_sh_wpkh \o KeyU \o <<")", ")">>},
            req \in BOOLEAN}

\* The descriptors whose inputs go into a psbt.
PsbtInputs ==
    {Args(Wsh(a)) : a \in {FragAfter, FragAfterFinal, FragHashOrAfter, FragOrOlder}}
        \cup {Args(TXT_pk \o KeyA \o <<")">>),
              [Args(TXT_addr \o AddrGood \o <<")">>) EXCEPT
                  !.templateOk = [NoTemplates EXCEPT ![1] = TRUE]]}

Inputs ==
    ChecksumInputs \cup RangedInputs \cup KeyInputs \cup AddrInputs \cup LimitInputs
        \cup TimedInputs \cup OrderInputs

(***************************************************************************)
(* The state machine: one construction call, then the calls made on the     *)
(* object and what the caller does to the arrays it passed.                 *)
(***************************************************************************)

MaxFailed == 2

VARIABLES
    phase,         \* "unparsed", "constructed" or "error"
    args,          \* the argument of the construction call
    preimagesArr,  \* the caller's preimages array
    signersArr,    \* the caller's signersKeyExpressions array
    desc,          \* the private fields of the object
    local,         \* what the construction call went through
    err,           \* the error the construction call threw
    psbt,          \* the caller's psbt
    ret,           \* the last method call since the caller touched its arrays
    observed,      \* what the accessors returned right after construction
    failed,        \* the number of getScriptSatisfaction calls that failed
    hist           \* the psbt at the start, and what the updatePsbt calls that
                   \* succeeded returned and derived as locktime

vars ==
    <<phase, args, preimagesArr, signersArr, desc, local, err, psbt, ret, observed, failed,
      hist>>

\* What every accessor returns.
Observe(d, preimages, signers) ==
    LET With(time) ==
            [payment |-> d.payment, address |-> getAddress(d),
             scriptPubKey |-> getScriptPubKey(d), sequence |-> time.nSequence,
             lockTime |-> time.nLockTime, witnessScript |-> getWitnessScript(d),
             redeemScript |-> getRedeemScript(d), isSegwit |-> isSegwit(d),
             expand |-> expand(d)]
    IN  With(getTimeConstraints(d, preimages, signers))

\* The record of a method call, with the psbt's locktime and number of
\* inputs when it was made.
Call(op, r) ==
    [op |-> op, ok |-> r.ok, value |-> r.value, err |-> r.err, signatures |-> {},
     vout |-> 0, locktimeBefore |-> psbt.locktime, inputsBefore |-> Len(psbt.inputs),
     psbtBefore |-> psbt]

NoCall ==
    [op |-> "none", ok |-> TRUE, value |-> Undef, err |-> NoErr, signatures |-> {},
     vout |-> 0, locktimeBefore |-> Zero32, inputsBefore |-> 0,
     psbtBefore |-> [locktime |-> Zero32, inputs |-> <<>>]]

\* The signatures a caller may hold.
Signers == {KeyA, KeyB}

SignatureSets ==
    {{[pubkey |-> k, signature |-> RealSignature] : k \in ks} : ks \in SUBSET Signers}

\* The state before the construction call with argument a.
Before(a) ==
    /\ phase = "unparsed"
    /\ args = a
    /\ preimagesArr = args.preimages
    /\ signersArr = args.signers
    /\ desc = EmptyDesc
    /\ local = NoLocal
    /\ err = NoErr
    /\ ret = NoCall
    /\ observed = Observe(EmptyDesc, <<>>, <<>>)
    /\ failed = 0
    /\ hist = [psbt |-> psbt, returned |-> <<>>, lockTimes |-> {}]

\* An empty psbt, with no locktime or with one.
EmptyPsbts == {[locktime |-> l, inputs |-> <<>>] : l \in {Zero32, U32(0, 7)}}

\* A psbt that holds output 0 of the transaction "tx" already.
OtherInput == Input("tx", 0, EmptyDesc, NumUndef)

Init == \E a \in MethodInputs : psbt \in EmptyPsbts /\ Before(a)

InitConstruction == \E a \in Inputs : psbt \in EmptyPsbts /\ Before(a)

InitPsbt ==
    \E a \in PsbtInputs :
        /\ psbt \in EmptyPsbts \cup {[locktime |-> Zero32, inputs |-> <<OtherInput>>]}
        /\ Before(a)

\* new Descriptor(args)
Construct ==
    /\ phase = "unparsed"
    /\ \E r \in {Descriptor(args)} :
        /\ phase' = IF r.ok THEN "constructed" ELSE "error"
        /\ desc' = r.desc
        /\ local' = r.local
        /\ err' = r.err
        /\ observed' = Observe(r.desc, preimagesArr, signersArr)
    /\ UNCHANGED <<args, preimagesArr, signersArr, psbt, ret, failed, hist>>

\* The caller pushes a preimage onto the array it passed.
PushPreimage ==
    /\ phase = "constructed"
    /\ DigestE \notin Range(preimagesArr)
    /\ preimagesArr' = Append(preimagesArr, DigestE)
    /\ ret' = NoCall
    /\ UNCHANGED <<phase, args, signersArr, desc, local, err, psbt, observed, failed, hist>>

\* The caller pushes a key expression onto the array it passed.
PushSigner ==
    /\ phase = "constructed"
    /\ args.signersGiven
    /\ KeyB \notin Range(signersArr)
    /\ signersArr' = Append(signersArr, KeyB)
    /\ ret' = NoCall
    /\ UNCHANGED <<phase, args, preimagesArr, desc, local, err, psbt, observed, failed, hist>>

Unchanged == UNCHANGED <<phase, args, preimagesArr, signersArr, desc, local, err, observed>>

\* A call that clears the object's fields when it fails.
GetScriptSatisfaction_Forgets ==
    /\ phase = "constructed"
    /\ \E signatures \in SignatureSets :
        \E r \in {getScriptSatisfaction(desc, preimagesArr, signersArr, signatures)} :
            /\ ~r.ok => failed < MaxFailed
            /\ ret' = [Call("getScriptSatisfaction", r) EXCEPT !.signatures = signatures]
            /\ failed' = IF r.ok THEN failed ELSE failed + 1
            /\ desc' = IF r.ok THEN desc ELSE EmptyDesc
    /\ UNCHANGED <<phase, args, preimagesArr, signersArr, local, err, observed, psbt, hist>>

\* getScriptSatisfaction(signatures)
GetScriptSatisfaction ==
    /\ phase = "constructed"
    /\ \E signatures \in SignatureSets :
        \E r \in {getScriptSatisfaction(desc, preimagesArr, signersArr, signatures)} :
            /\ ~r.ok => failed < MaxFailed
            /\ ret' = [Call("getScriptSatisfaction", r) EXCEPT !.signatures = signatures]
            /\ failed' = IF r.ok THEN failed ELSE failed + 1
    /\ Unchanged
    /\ UNCHANGED <<psbt, hist>>

\* The history after an updatePsbt call.
Recorded(r, txLockTime) ==
    IF r.ok
    THEN [hist EXCEPT !.returned = Append(@, r.value),
                      !.lockTimes = IF txLockTime = NumUndef THEN @ ELSE @ \cup {txLockTime}]
    ELSE hist

\* updatePsbt(txHex, vout, psbt), for a transaction among txs.
UpdatePsbtFrom(txs) ==
    /\ phase = "constructed"
    /\ \E txHex \in txs, vout \in 0..NumOuts :
        \E r \in {updatePsbt(desc, preimagesArr, signersArr, txHex, vout, psbt)} :
            /\ ret' = [Call("updatePsbt", r) EXCEPT !.vout = vout]
            /\ psbt' = r.psbt
            /\ hist' = Recorded(r, getLockTime(desc, preimagesArr, signersArr))
    /\ Unchanged
    /\ UNCHANGED failed

\* updatePsbt(txHex, vout, psbt) with the one transaction "tx".
UpdatePsbt == UpdatePsbtFrom({"tx"})

\* updatePsbt(txHex, vout, psbt) with either of two transactions.
UpdatePsbtEither == UpdatePsbtFrom({"tx", "ty"})

\* The caller's signers put their signatures on an input of the psbt.
SignInput ==
    /\ phase = "constructed"
    /\ \E i \in DOMAIN psbt.inputs, k \in Signers :
        /\ psbt.inputs[i].partialSig = {}
        /\ psbt.inputs[i].finalized = "no"
        /\ psbt' = [psbt EXCEPT !.inputs[i].partialSig =
                                    {[pubkey |-> k, signature |-> RealSignature]}]
    /\ ret' = NoCall
    /\ Unchanged
    /\ UNCHANGED <<failed, hist>>

\* finalizePsbtInput(index, psbt)
FinalizePsbtInput ==
    /\ phase = "constructed"
    /\ \E index \in 0..Len(psbt.inputs) :
        \E r \in {finalizePsbtInput(desc, preimagesArr, signersArr, index, psbt)} :
            /\ ret' = [Call("finalizePsbtInput", r) EXCEPT
                          !.vout = index,
                          !.signatures = IF index < Len(psbt.inputs)
                                         THEN psbt.inputs[index + 1].partialSig ELSE {}]
            /\ psbt' = r.psbt
    /\ Unchanged
    /\ UNCHANGED <<failed, hist>>

\* A method that only returns a value.
Query(op, r) ==
    /\ phase = "constructed"
    /\ ret' = Call(op, r)
    /\ Unchanged
    /\ UNCHANGED <<psbt, failed, hist>>

GetAddress == Query("getAddress", getAddress(desc))

GetScriptPubKey == Query("getScriptPubKey", getScriptPubKey(desc))

GetLockTime == Query("getLockTime", Return(getLockTime(desc, preimagesArr, signersArr)))

GetSequence == Query("getSequence", Return(getSequence(desc, preimagesArr, signersArr)))

GetWitnessScript == Query("getWitnessScript", Return(getWitnessScript(desc)))

GetRedeemScript == Query("getRedeemScript", Return(getRedeemScript(desc)))

IsSegwit == Query("isSegwit", isSegwit(desc))

Expand == Query("expand", Return(expand(desc)))

Next ==
    \/ Construct
    \/ PushPreimage
    \/ PushSigner
    \/ GetScriptSatisfaction
    \/ UpdatePsbt
    \/ GetAddress
    \/ GetScriptPubKey
    \/ GetLockTime
    \/ GetSequence
    \/ GetWitnessScript
    \/ GetRedeemScript
    \/ IsSegwit
    \/ Expand

Spec == Init /\ [][Next]_vars

\* Construction calls alone, over every input.
NextConstruction == Construct

SpecConstruction == InitConstruction /\ [][NextConstruction]_vars

\* The calls that touch the caller's psbt.
NextPsbt ==
    \/ Construct
    \/ PushPreimage
    \/ UpdatePsbt
    \/ SignInput
    \/ FinalizePsbtInput

SpecPsbt == InitPsbt /\ [][NextPsbt]_vars

NextUpdate ==
    \/ Construct
    \/ PushPreimage
    \/ UpdatePsbtEither

SpecUpdate == InitPsbt /\ [][NextUpdate]_vars

(***************************************************************************)
(* Properties                                                               *)
(***************************************************************************)

\* A getScriptSatisfaction call has just returned a witness.
WitnessReturned == phase = "constructed" /\ ret.op = "getScriptSatisfaction" /\ ret.ok

\* The satisfactions of the descriptor's miniscript that the signatures of
\* the last call and the present preimages allow.
RealSatisfactions ==
    Satisfactions(Resolve(desc.expandedMiniscript, desc.expansionMap), ret.signatures,
                  preimagesArr)

\* C1: a witness that getScriptSatisfaction returns is the witness of a
\* satisfaction with the real signatures, and every such satisfaction
\* implies the locktime and the sequence that getLockTime() and
\* getSequence() return for the same signers and preimages.
C1_WitnessKeepsTimePair ==
    WitnessReturned =>
        /\ \E x \in RealSatisfactions : x.witness = ret.value
        /\ \A x \in RealSatisfactions :
               x.witness = ret.value =>
                   /\ x.nLockTime = getLockTime(desc, preimagesArr, signersArr)
                   /\ x.nSequence = getSequence(desc, preimagesArr, signersArr)

\* A witness was returned although a lighter satisfaction with another
\* pair was there with the same signatures.
C1_Witness ==
    /\ WitnessReturned
    /\ \E x \in RealSatisfactions :
           /\ x.nSequence # getSequence(desc, preimagesArr, signersArr)
           /\ WitnessWeight(x.witness) < WitnessWeight(ret.value)

\* The construction call compiled a script.
Compiled == phase # "unparsed" /\ local.compiled

WithinLimits(maxSize) ==
    /\ byteLength(local.script) <= maxSize
    /\ countNonPushOnlyOPs(local.script) <= 201

\* C2: a construction call that compiled a miniscript succeeds exactly when
\* the script is within the limits of its production: 3600 bytes under wsh
\* and sh(wsh), 520 bytes under sh with or without allowMiniscriptInP2SH,
\* and 201 non-push opcodes under all three.
C2_ScriptWithinLimits ==
    Compiled =>
        /\ local.production \in {"wsh", "sh(wsh)", "sh"}
        /\ local.production \in {"wsh", "sh(wsh)"} =>
               (phase = "constructed" <=> WithinLimits(3600))
        /\ local.production = "sh" => (phase = "constructed" <=> WithinLimits(520))

\* A sh descriptor of a script of exactly 520 bytes was constructed.
C2_Witness ==
    /\ phase = "constructed"
    /\ local.production = "sh"
    /\ byteLength(local.script) = 520

\* The names of the fragments allowed at the top of sh(...).
WhitelistNames ==
    {<<"p", "k">>, <<"p", "k", "h">>, <<"w", "p", "k", "h">>, <<"c", "o", "m", "b", "o">>,
     <<"m", "u", "l", "t", "i">>, <<"s", "o", "r", "t", "e", "d", "m", "u", "l", "t", "i">>,
     <<"m", "u", "l", "t", "i", "_", "a">>,
     <<"s", "o", "r", "t", "e", "d", "m", "u", "l", "t", "i", "_", "a">>}

\* The name of the fragment at the top of a miniscript text.
TopName(text) == SubSeq(text, 1, IndexOf("(", text) - 1)

\* The construction call took the sh(MINISCRIPT) production on a fragment
\* that is not on the whitelist.
OtherFragmentInSh ==
    /\ phase # "unparsed"
    /\ local.production = "sh"
    /\ TopName(Inside(local.evaluatedExpression, TXT_sh, <<")">>)) \notin WhitelistNames

\* C3: under sh(MINISCRIPT), a fragment that is not on the whitelist fails
\* the construction without allowMiniscriptInP2SH, before any expansion or
\* compilation, and with allowMiniscriptInP2SH it is expanded.
C3_WhitelistInSh ==
    OtherFragmentInSh =>
        IF args.allowMiniscriptInP2SH
        THEN err.kind # "miniscript_only_in_wsh" /\ local.expanded
        ELSE /\ phase = "error"
             /\ err.kind = "miniscript_only_in_wsh"
             /\ ~local.expanded
             /\ ~local.compiled
             /\ local.miniscript = Undef

\* sh(and_v(v:pk(A),older(10))) was rejected.
C3_Witness ==
    /\ OtherFragmentInSh
    /\ ~args.allowMiniscriptInP2SH
    /\ phase = "error"
    /\ args.expression = Sh(FragOlder)

\* The templates that accept the output, by their place in the order
\* P2PKH, P2SH, P2WPKH, P2WSH, P2TR.
Accepting == {i \in 1..5 : args.templateOk[i]}

\* The construction call took the addr production on an address text.
AddrTaken ==
    /\ phase # "unparsed"
    /\ local.production = "addr"
    /\ Inside(local.evaluatedExpression, TXT_addr, <<")">>) # <<>>

\* C4: under addr(ADDR), the payment is that of the last template, in the
\* order P2PKH, P2SH, P2WPKH, P2WSH, P2TR, that accepts the decoded output,
\* and the construction fails, with an invalid-address error, exactly when
\* the address does not decode or no template accepts.
C4_AddrLastTemplateWins ==
    AddrTaken =>
        IF local.decoded /\ Accepting # {}
        THEN /\ phase = "constructed"
             /\ desc.payment.name =
                    <<"p2pkh", "p2sh", "p2wpkh", "p2wsh", "p2tr">>[
                        CHOOSE i \in Accepting : \A j \in Accepting : j <= i]
             /\ desc.payment.output = DecodedOutput(AddrGood)
        ELSE phase = "error" /\ err.kind = "invalid_address"

\* P2PKH and P2WSH both accepted, and the payment is the P2WSH one.
C4_Witness ==
    /\ AddrTaken
    /\ phase = "constructed"
    /\ Accepting = {1, 4}
    /\ desc.payment.name = "p2wsh"

\* The text with the digits d in place of each wildcard, and every other
\* character where it was: the character of text at i starts at position
\* Start(i) of the result.
Spliced(text, d) ==
    LET Stars(i) == Cardinality({j \in 1..(i - 1) : text[j] = "*"})
        Start(i) == i + Stars(i) * (Len(d) - 1)
        Width(i) == IF text[i] = "*" THEN Len(d) ELSE 1
        Origin(p) == CHOOSE i \in DOMAIN text : Start(i) <= p /\ p < Start(i) + Width(i)
        Char(p, i) == IF text[i] = "*" THEN d[p - Start(i) + 1] ELSE text[i]
    IN  [p \in 1..(Start(Len(text) + 1) - 1) |-> Char(p, Origin(p))]

\* The decimal text of a number below 100.
Digits(n) ==
    LET digit == <<"0", "1", "2", "3", "4", "5", "6", "7", "8", "9">> IN
    IF n < 10 THEN <<digit[n + 1]>> ELSE <<digit[(n \div 10) + 1], digit[(n % 10) + 1]>>

\* The construction call reached the wildcard substitution of a ranged body.
RangedEvaluated ==
    /\ phase # "unparsed"
    /\ "*" \in Range(StripChecksum(args.expression))
    /\ err.kind \notin {"no_checksum", "invalid_checksum"}

\* C5: for a body with a wildcard, evaluate at an index i that is a
\* non-negative integer returns the body with the decimal text of i in
\* place of every wildcard, as it does at i + 1, so that the two differ at
\* the wildcards only; without an index, or with one that is no integer or
\* is negative, it throws and returns no body.
C5_WildcardsInLockstep ==
    RangedEvaluated =>
        IF args.index.def /\ args.index.isInt /\ args.index.val >= 0
        THEN /\ local.evaluatedExpression =
                    Spliced(StripChecksum(args.expression), Digits(args.index.val))
             /\ evaluate(args.expression, args.checksumRequired,
                         Idx(args.index.val + 1)).value =
                    Spliced(StripChecksum(args.expression), Digits(args.index.val + 1))
        ELSE /\ phase = "error"
             /\ err.kind = IF args.index.def THEN "invalid_index" ELSE "index_not_provided"
             /\ local.evaluatedExpression = Undef

\* A body with two wildcards was evaluated at 9, next to 10.
C5_Witness ==
    /\ RangedEvaluated
    /\ phase = "constructed"
    /\ args.expression = Wsh(FragMultiRanged)
    /\ args.index = Idx(9)

\* The places where two texts of one length differ.
Differences(s, t) == {k \in DOMAIN s : s[k] # t[k]}

\* The text is body#checksum with one character of the body or of the
\* checksum changed.
OneCharacterFrom(text, body) ==
    /\ Len(text) = Len(body) + 9
    /\ Cardinality(Differences(text, WithChecksum(body))) = 1
    /\ Len(body) + 1 \notin Differences(text, WithChecksum(body))

\* C6: body#checksum(body) passes the checksum validation whether or not a
\* checksum is required, and the body is what evaluate goes on with; the
\* same text with one character of the body or of the checksum changed
\* fails the construction; and a text without a checksum is rejected when
\* one is required.
C6_ChecksumRoundTrip ==
    phase # "unparsed" =>
        /\ \A body \in ChecksumBodies :
               /\ args.expression = WithChecksum(body) =>
                      /\ err.kind \notin {"no_checksum", "invalid_checksum"}
                      /\ StripChecksum(args.expression) = body
                      /\ local.evaluatedExpression = Spliced(body, Digits(args.index.val))
                      /\ phase = "constructed"
               /\ OneCharacterFrom(args.expression, body) => phase = "error"
        /\ (args.checksumRequired /\ MatchChecksum(args.expression) = Undef) =>
               phase = "error" /\ err.kind = "no_checksum"

\* A text with one character of the body changed failed on its checksum.
C6_Witness ==
    /\ phase = "error"
    /\ err.kind = "invalid_checksum"
    /\ OneCharacterFrom(args.expression, Wsh(FragPkA))
    /\ Differences(args.expression, WithChecksum(Wsh(FragPkA))) = {8}

\* C7: after construction every accessor keeps returning what it returned
\* right after construction, whatever methods are called and whatever the
\* caller does to the arrays it passed.
C7_AccessorsNeverChange ==
    phase = "constructed" => Observe(desc, preimagesArr, signersArr) = observed

\* What an error message interpolates is a text the caller passed.
CarriesInput(e) ==
    /\ e.what \in {"expression", "evaluatedExpression", "index", "address", "miniscript",
                  "keyExpression"}
    /\ e.text # <<>>
    /\ e.text # Undef

\* C8: every error of the construction and of getScriptSatisfaction
\* carries the offending input text.
C8_ErrorsCarryInput ==
    /\ phase = "error" => CarriesInput(err)
    /\ (ret.op = "getScriptSatisfaction" /\ ~ret.ok) => CarriesInput(ret.err)

\* C9: getScriptSatisfaction leaves the object as the constructor made it,
\* and a witness it returns is the one that a first call with the same
\* signatures on a newly constructed object returns, however many calls
\* failed before.
C9_FailedSatisfactionRecoverable ==
    phase = "constructed" =>
        /\ desc = Descriptor(args).desc
        /\ WitnessReturned =>
               ret.value = getScriptSatisfaction(Descriptor(args).desc, preimagesArr,
                                                 signersArr, ret.signatures).value

\* A witness was returned after two calls had failed.
C9_Witness == WitnessReturned /\ failed >= 2

\* An updatePsbt call has just returned.
Updated == phase = "constructed" /\ ret.op = "updatePsbt"

DerivedLockTime == getLockTime(desc, preimagesArr, signersArr)

DerivedSequence == getSequence(desc, preimagesArr, signersArr)

\* The sequence of the input that the last call added.
AddedSequence == psbt.inputs[ret.value + 1].sequence

\* C10: an input that updatePsbt adds for a descriptor with a locktime has
\* a sequence of at most 0xfffffffe: 0xfffffffe when the descriptor has no
\* sequence, else the descriptor's; updatePsbt throws and adds no input
\* when the descriptor has a locktime and a sequence above 0xfffffffe; and
\* without a locktime the input has the descriptor's sequence, or none.
C10_SequenceWithLockTime ==
    Updated =>
        /\ (ret.ok /\ DerivedLockTime # NumUndef) =>
               /\ AddedSequence # NumUndef
               /\ ~GtU32(AddedSequence, U32(65535, 65534))
               /\ AddedSequence = IF DerivedSequence = NumUndef THEN U32(65535, 65534)
                                  ELSE DerivedSequence
        /\ (ret.ok /\ DerivedLockTime = NumUndef) => AddedSequence = DerivedSequence
        /\ (DerivedLockTime # NumUndef /\ DerivedSequence # NumUndef
                /\ GtU32(DerivedSequence, U32(65535, 65534))) =>
               ~ret.ok /\ Len(psbt.inputs) = ret.inputsBefore
        /\ ret.ok => Len(psbt.inputs) = ret.inputsBefore + 1

\* An input was added with 0xfffffffe for a descriptor with a locktime and
\* no sequence.
C10_Witness ==
    /\ Updated
    /\ ret.ok
    /\ DerivedLockTime # NumUndef
    /\ DerivedSequence = NumUndef
    /\ AddedSequence = U32(65535, 65534)

\* The script the compiler gives for the descriptor's miniscript.
CompiledMiniscript == miniscript2Script(desc.expandedMiniscript, desc.expansionMap)

\* The descriptor pays to the P2SH output that hashes the script.
HashedByP2SH(script) ==
    desc.payment.name = "p2sh" /\ desc.payment.output = p2shOutput(script)

\* The key of the text sh(wpkh(KEY)).
ShWpkhKey ==
    parseKeyExpression(Inside(local.evaluatedExpression, TXT_sh_wpkh, <<")", ")">>),
                       TRUE).pubkey

\* C11: getRedeemScript() is defined exactly under sh(wpkh(KEY)),
\* sh(wsh(MINISCRIPT)) and sh(MINISCRIPT), where it is the script that the
\* P2SH output hashes: the P2WPKH script of KEY, the P2WSH script of the
\* compiled miniscript, the compiled miniscript; getWitnessScript() is
\* defined exactly under wsh(MINISCRIPT) and sh(wsh(MINISCRIPT)), where it
\* is the compiled miniscript; both are undefined under addr, pk, pkh, wpkh.
C11_ScriptAccessorsMatchProduction ==
    phase = "constructed" =>
        /\ getRedeemScript(desc).def <=> local.production \in {"sh(wpkh)", "sh(wsh)", "sh"}
        /\ getWitnessScript(desc).def <=> local.production \in {"wsh", "sh(wsh)"}
        /\ local.production = "sh(wpkh)" =>
               /\ getRedeemScript(desc).script = p2wpkhOutput(ShWpkhKey)
               /\ HashedByP2SH(getRedeemScript(desc).script)
        /\ local.production = "sh(wsh)" =>
               /\ getRedeemScript(desc).script = p2wshOutput(CompiledMiniscript)
               /\ HashedByP2SH(getRedeemScript(desc).script)
               /\ getWitnessScript(desc).script = CompiledMiniscript
        /\ local.production = "sh" =>
               /\ getRedeemScript(desc).script = CompiledMiniscript
               /\ HashedByP2SH(getRedeemScript(desc).script)
        /\ local.production = "wsh" =>
               /\ getWitnessScript(desc).script = CompiledMiniscript
               /\ desc.payment.output = p2wshOutput(CompiledMiniscript)
        /\ local.production \in {"addr", "pk", "pkh", "wpkh"} =>
               getRedeemScript(desc) = NoScript /\ getWitnessScript(desc) = NoScript

\* sh(wpkh(A)) was constructed, with the P2WPKH script of A to redeem.
C11_Witness ==
    /\ phase = "constructed"
    /\ local.production = "sh(wpkh)"
    /\ getRedeemScript(desc) = SomeScript(p2wpkhOutput(ShWpkhKey))
    /\ getWitnessScript(desc) = NoScript

\* The productions in the order of the dispatch.
Productions == <<"addr", "pk", "pkh", "sh(wpkh)", "wpkh", "sh(wsh)", "sh", "wsh">>

\* The anchored pattern of a production matches the whole text.
PatternMatches(production, text) ==
    CASE production = "addr"     -> reAddrAnchored(text)
      [] production = "pk"       -> rePkAnchored(text)
      [] production = "pkh"      -> rePkhAnchored(text)
      [] production = "sh(wpkh)" -> reShWpkhAnchored(text)
      [] production = "wpkh"     -> reWpkhAnchored(text)
      [] production = "sh(wsh)"  -> reShWshMiniscriptAnchored(text)
      [] production = "sh"       -> reShMiniscriptAnchored(text)
      [] production = "wsh"      -> reWshMiniscriptAnchored(text)

\* The first production whose pattern matches, or "none".
FirstMatch(text) ==
    LET matching == {i \in DOMAIN Productions : PatternMatches(Productions[i], text)}
    IN  IF matching = {} THEN "none"
        ELSE Productions[CHOOSE i \in matching : \A j \in matching : i <= j]

\* The text of the call fails the checksum validation.
ChecksumFails ==
    IF MatchChecksum(args.expression) = Undef THEN args.checksumRequired
    ELSE Tail(MatchChecksum(args.expression)) #
             DescriptorChecksum(StripChecksum(args.expression))

\* The text of the call has a wildcard and the call no usable index.
IndexFails ==
    /\ "*" \in Range(StripChecksum(args.expression))
    /\ ~(args.index.def /\ args.index.isInt /\ args.index.val >= 0)

\* C12: a construction call ends constructed, or in an error with no
\* descriptor; a failed checksum validation ends it before the wildcard
\* substitution, a failed substitution before the dispatch, and the
\* dispatch takes the first production, in the order addr, pk, pkh,
\* sh(wpkh), wpkh, sh(wsh), sh, wsh, whose pattern matches the evaluated
\* text, so that sh(MINISCRIPT) never takes a text of sh(wpkh(KEY)) or
\* sh(wsh(...)); a text that none matches ends in the fallback error.
C12_PhasesAndDispatch ==
    phase # "unparsed" =>
        /\ phase \in {"constructed", "error"}
        /\ phase = "constructed" => err = NoErr /\ desc # EmptyDesc
        /\ phase = "error" => err # NoErr /\ desc = EmptyDesc
        /\ IF ChecksumFails
           THEN /\ phase = "error"
                /\ err.kind \in {"no_checksum", "invalid_checksum"}
                /\ local = NoLocal
           ELSE IF IndexFails
           THEN /\ phase = "error"
                /\ err.kind \in {"index_not_provided", "invalid_index"}
                /\ local = NoLocal
           ELSE /\ local.evaluatedExpression # Undef
                /\ local.production = FirstMatch(local.evaluatedExpression)
                /\ local.production = "none" <=> err.kind = "could_not_parse"
                /\ local.production = "sh" =>
                       /\ ~reShWpkhAnchored(local.evaluatedExpression)
                       /\ ~reShWshMiniscriptAnchored(local.evaluatedExpression)

\* A text that the patterns of sh(wsh(MINISCRIPT)) and of sh(MINISCRIPT)
\* both match was taken by sh(wsh(MINISCRIPT)).
C12_Witness ==
    /\ phase = "constructed"
    /\ local.production = "sh(wsh)"
    /\ reShMiniscriptAnchored(local.evaluatedExpression)
    /\ reShWshMiniscriptAnchored(local.evaluatedExpression)

\* C13: an updatePsbt call that fails leaves the caller's psbt as it was
\* before the call, locktime and inputs.
C13_FailedUpdateLeavesPsbt ==
    (Updated /\ ~ret.ok) => psbt = ret.psbtBefore

\* C14: the psbt has the inputs it had at the start and one more for each
\* updatePsbt call that succeeded, the j-th of these calls returned the
\* number of inputs at the start plus j - 1, and the locktime of the psbt
\* is the one it had at the start or one that an updatePsbt call that
\* succeeded derived, and is the one at the start when that is not zero.
C14_InputsAndLockTime ==
    /\ Len(psbt.inputs) = Len(hist.psbt.inputs) + Len(hist.returned)
    /\ \A j \in DOMAIN hist.returned : hist.returned[j] = Len(hist.psbt.inputs) + j - 1
    /\ psbt.locktime \in {hist.psbt.locktime} \cup hist.lockTimes
    /\ hist.psbt.locktime # Zero32 => psbt.locktime = hist.psbt.locktime

\* A finalizePsbtInput call has just returned.
Finalized == phase = "constructed" /\ ret.op = "finalizePsbtInput"

\* What getScriptSatisfaction makes of the signatures of the input that
\* the last call was to finalize.
SatisfactionOfInput ==
    getScriptSatisfaction(desc, preimagesArr, signersArr, ret.signatures)

\* The witnesses getScriptSatisfaction returns for some signatures, with
\* the preimages pushed or not.
Witnesses ==
    {r.value : r \in {x \in {getScriptSatisfaction(desc, preimages, signersArr, signatures) :
                                 preimages \in {<<>>, <<DigestE>>},
                                 signatures \in SignatureSets \ {{}}} : x.ok}}

====
